---- MODULE Spec2Model ----
(***************************************************************************)
(* Bookmark-Tool: the bookmark parsers, the URL normaliser, the first-seen *)
(* deduplication and the set-algebra comparison of the repository's        *)
(* scripts, as state machines.                                             *)
(*                                                                         *)
(* A Python str is a sequence of one-character strings, so that slicing,   *)
(* prefix tests, strip() and ordering are computed character by character. *)
(* A Python list is a sequence, a set is a set, and a dict is a sequence   *)
(* of entries in insertion order (the order dict iteration follows).       *)
(*                                                                         *)
(* Each script is one specification over the shared variables; the         *)
(* variables of the other scripts keep their initial values.               *)
(***************************************************************************)
EXTENDS Integers, Sequences, FiniteSets, TLC

VARIABLES
    mode,                    \* 'url' or 'url-title' (argparse choices)
    pc,                      \* position inside the running script
    script,                  \* the script that is running
    \* deduplicate_bookmarks_健壮版1.py / deduplicate_bookmarks.py
    all_bookmarks, strict_protocol, ignore_slash, idx,
    unique_bookmarks, processed_items, duplicate_groups, sorted_groups,
    total_bookmarks_count, remaining_bookmarks_count, total_removed_items,
    \* BookmarkParser of compare_bookmarks_流式解析.py and of
    \* compare_multi_bookmarks_流式解析.py
    filter_enabled, decode_enabled,
    bookmarks, folders, total_folder_counter,
    is_in_a_tag, is_in_h3_tag,
    current_url, current_title, current_folder,
    \* bookkeeping about the events fed to the parser (not parser state)
    ev,                      \* the last event delivered: kind, tag and, for
                             \* an EndTag(a), the url of the anchor it closes
    own_text,                \* text nodes since the last StartTag(a)
    nevents,                 \* number of events delivered
    open_tags,               \* StartTag events of a and of h3 that no EndTag
                             \* of the tag has followed yet
    paired,                  \* StartTag events of a and of h3 that an EndTag
                             \* of the tag has followed
    \* parse_bookmarks_file_fast: what it returns for the file
    b_set, b_total, f_set, f_total,
    \* parse_bookmarks_file of compare_bookmarks.py (regular expressions)
    content, rx_bookmarks, rx_folders,
    \* generate_report of compare_bookmarks_流式解析.py / compare_bookmarks.py
    bookmarks1_set, bookmarks2_set, folders1_set, folders2_set,
    bookmarks_only_in_1, bookmarks_only_in_2,
    folders_only_in_1, folders_only_in_2,
    \* analyze_multiple_files of compare_multi_bookmarks_流式解析.py and
    \* generate_multi_report of compare_multi_bookmarks.py
    files,                   \* what parsing each file of the command line
                             \* returns: its sets, or None for both
    all_data, analysis_mode, common_bookmarks, common_folders, unique_items,
    \* one anchor on its way from the file's text to its key: parse_bookmarks
    \* and normalize_url of deduplicate_bookmarks_健壮版1.py, the loop body of
    \* parse_bookmarks_file of compare_multi_bookmarks_健壮正则表达式版.py,
    \* html.parser and handle_endtag of compare_bookmarks_流式解析.py
    raw_url, raw_title, normalized_url, clean_title, result,
    applied,                 \* bookkeeping: the steps applied, in order
    renormalized_url,        \* normalize_url of normalized_url
    \* two BookmarkParser instances of one run of generate_report, fed in turns
    parsers, inputs, last_fed, interleaved,
    \* find_and_process_duplicates of find_duplicate_bookmarks.py
    output_file, report_file, url_counts, unique_bookmarks_to_save,
    duplicates, report, clean_saved,
    \* the JSON converters: 批量书签json转换书签html.py and 书签json转换书签html.py
    roots, bookmark_count, written,
    \* the listing of one result set in a report: sorted(list(result_set))
    result_set, iteration, listed,
    \* main and run_for_all_files of 批量书签去重.py
    targets, batch_mode, modes_to_run, html_files,
    file_i, mode_j,          \* the loop variables i and j, 1-based
    runs,                    \* bookkeeping: the (file, mode) pairs of the
                             \* child processes started, in order
    script_present,          \* the file system: the script file exists
    attempts,                \* bookkeeping: calls of subprocess.run
    last_outcome             \* bookkeeping: how the last call ended

dedupVars == <<all_bookmarks, strict_protocol, ignore_slash, idx,
               unique_bookmarks, processed_items, duplicate_groups,
               sorted_groups, total_bookmarks_count,
               remaining_bookmarks_count, total_removed_items>>

parserVars == <<filter_enabled, decode_enabled, bookmarks, folders,
                total_folder_counter, is_in_a_tag, is_in_h3_tag, current_url,
                current_title, current_folder, ev, own_text, nevents,
                open_tags, paired, b_set, b_total, f_set, f_total>>

regexVars == <<content, rx_bookmarks, rx_folders>>

compareVars == <<bookmarks1_set, bookmarks2_set, folders1_set, folders2_set,
                 bookmarks_only_in_1, bookmarks_only_in_2,
                 folders_only_in_1, folders_only_in_2>>

multiVars == <<files, all_data, analysis_mode, common_bookmarks,
               common_folders, unique_items>>

normVars == <<raw_url, raw_title, normalized_url, clean_title, result,
              applied, renormalized_url>>

twoVars == <<parsers, inputs, last_fed, interleaved>>

findVars == <<output_file, report_file, url_counts, unique_bookmarks_to_save,
              duplicates, report, clean_saved>>

jsonVars == <<roots, bookmark_count, written>>

listVars == <<result_set, iteration, listed>>

batchVars == <<targets, batch_mode, modes_to_run, html_files, file_i, mode_j,
               runs, script_present, attempts, last_outcome>>

vars == <<mode, pc, script, dedupVars, parserVars, regexVars, compareVars,
          multiVars, normVars, twoVars, findVars, jsonVars, listVars,
          batchVars>>

\* what the steps of one script leave alone
notDedup == <<script, parserVars, regexVars, compareVars, multiVars, normVars,
              twoVars, findVars, jsonVars, listVars, batchVars>>

notParser == <<script, dedupVars, regexVars, compareVars, multiVars, normVars,
               twoVars, findVars, jsonVars, listVars, batchVars>>

notRegex == <<script, dedupVars, parserVars, compareVars, multiVars, normVars,
              twoVars, findVars, jsonVars, listVars, batchVars>>

notCompare == <<script, dedupVars, parserVars, regexVars, multiVars, normVars,
                twoVars, findVars, jsonVars, listVars, batchVars>>

notMulti == <<script, dedupVars, parserVars, regexVars, compareVars, normVars,
              twoVars, findVars, jsonVars, listVars, batchVars>>

notNormalize == <<script, dedupVars, parserVars, regexVars, compareVars,
                  multiVars, twoVars, findVars, jsonVars, listVars, batchVars>>

notTwo == <<script, dedupVars, parserVars, regexVars, compareVars, multiVars,
            normVars, findVars, jsonVars, listVars, batchVars>>

notFind == <<script, dedupVars, parserVars, regexVars, compareVars, multiVars,
             normVars, twoVars, jsonVars, listVars, batchVars>>

notJson == <<script, dedupVars, parserVars, regexVars, compareVars, multiVars,
             normVars, twoVars, findVars, listVars, batchVars>>

notList == <<script, dedupVars, parserVars, regexVars, compareVars, multiVars,
             normVars, twoVars, findVars, jsonVars, batchVars>>

notBatch == <<script, dedupVars, parserVars, regexVars, compareVars,
              multiVars, normVars, twoVars, findVars, jsonVars, listVars>>

(***************************************************************************)
(* Bounds of the model.                                                    *)
(***************************************************************************)
MaxBookmarks == 5
MaxEvents == 5
MaxTokens == 4
MaxFiles == 3
MaxTail == 2
MaxHost == 3
MaxInterleaved == 4
MaxNodes == 4
MaxListed == 3
MaxTargets == 3

(***************************************************************************)
(* Python str operations.                                                  *)
(***************************************************************************)
Range(s) == {s[i] : i \in 1..Len(s)}

SeqsUpTo(S, n) == UNION {[1..k -> S] : k \in 0..n}

\* ord() of the characters the inputs are built from
CharTable ==
    << <<" ", 32>>, <<"#", 35>>, <<"%", 37>>, <<"&", 38>>, <<"/", 47>>,
       <<"2", 50>>, <<"3", 51>>, <<"6", 54>>, <<"7", 55>>, <<"8", 56>>,
       <<":", 58>>, <<";", 59>>,
       <<"A", 65>>, <<"B", 66>>, <<"F", 70>>, <<"H", 72>>, <<"P", 80>>,
       <<"T", 84>>, <<"W", 87>>, <<"a", 97>>,
       <<"b", 98>>, <<"c", 99>>, <<"d", 100>>, <<"f", 102>>, <<"h", 104>>,
       <<"m", 109>>, <<"p", 112>>, <<"s", 115>>, <<"t", 116>> >>

Chars == {e[1] : e \in Range(CharTable)}

CharCode(c) == (CHOOSE e \in Range(CharTable) : e[1] = c)[2]

\* s[i:] with a 0-based, non-negative i
SliceFrom(s, i) == SubSeq(s, i + 1, Len(s))

\* s.startswith(p)
StartsWith(s, p) == Len(s) >= Len(p) /\ SubSeq(s, 1, Len(p)) = p

\* s.find(p): 0-based index of the first occurrence, -1 when there is none
Find(s, p) ==
    LET hits == {i \in 0..(Len(s) - Len(p)) : SubSeq(s, i + 1, i + Len(p)) = p}
    IN  IF hits = {} THEN -1 ELSE CHOOSE i \in hits : \A j \in hits : i <= j

\* a single trailing slash removed
RStripSlash_One(s) ==
    IF Len(s) > 0 /\ s[Len(s)] = "/" THEN SubSeq(s, 1, Len(s) - 1) ELSE s

\* s.rstrip('/')
RECURSIVE RStripSlash(_)
RStripSlash(s) ==
    IF Len(s) > 0 /\ s[Len(s)] = "/" THEN RStripSlash(SubSeq(s, 1, Len(s) - 1))
    ELSE s

\* str < str: lexicographic by code point, a proper prefix is smaller
RECURSIVE StrLess(_, _)
StrLess(a, b) ==
    IF Len(b) = 0 THEN FALSE
    ELSE IF Len(a) = 0 THEN TRUE
    ELSE IF a[1] # b[1] THEN CharCode(a[1]) < CharCode(b[1])
    ELSE StrLess(Tail(a), Tail(b))

(***************************************************************************)
(* deduplicate_bookmarks_健壮版1.py                                        *)
(***************************************************************************)
S_http  == <<"h", "t", "t", "p", ":", "/", "/">>
S_https == <<"h", "t", "t", "p", "s", ":", "/", "/">>
S_sep   == <<":", "/", "/">>

\* re.sub(r'^https?://', '', url): no IGNORECASE flag
StripScheme(url) ==
    IF StartsWith(url, S_http) THEN SliceFrom(url, Len(S_http))
    ELSE IF StartsWith(url, S_https) THEN SliceFrom(url, Len(S_https))
    ELSE url

normalize_url(url, strict, slash) ==
    LET u1 == IF ~strict THEN StripScheme(url) ELSE url
    IN  IF slash /\ "/" \in Range(SliceFrom(u1, Find(u1, S_sep) + 3))
        THEN RStripSlash(u1)
        ELSE u1

\* key = normalized_url_key if mode == 'url' else (normalized_url_key, title)
KeyOf(item) ==
    LET n == normalize_url(item[1], strict_protocol, ignore_slash)
    IN  IF mode = "url" THEN n ELSE <<n, item[2]>>

\* the parsed (url, clean_title) pairs the dedup runs are fed with
DedupPool ==
    { << S_http \o <<"a", "b", "/">>, <<"A">> >>,
      << S_http \o <<"a", "b">>, <<"A">> >>,
      << S_https \o <<"a", "b">>, <<"B">> >>,
      << <<"a", "a">>, <<"A">> >> }

Modes == {"url", "url-title"}

NoEvent == [kind |-> "none", tag |-> "", url |-> <<>>]

NoTags == [a |-> 0, h3 |-> 0]

RegexIdle ==
    /\ content = <<>>
    /\ rx_bookmarks = {}
    /\ rx_folders = {}

CompareIdle ==
    /\ bookmarks1_set = {}
    /\ bookmarks2_set = {}
    /\ folders1_set = {}
    /\ folders2_set = {}
    /\ bookmarks_only_in_1 = {}
    /\ bookmarks_only_in_2 = {}
    /\ folders_only_in_1 = {}
    /\ folders_only_in_2 = {}

MultiIdle ==
    /\ files = <<>>
    /\ all_data = <<>>
    /\ analysis_mode = "none"
    /\ common_bookmarks = {}
    /\ common_folders = {}
    /\ unique_items = <<>>

NoResult == [status |-> "none", key |-> <<>>]

NormalizeIdle ==
    /\ raw_url = <<>>
    /\ raw_title = <<>>
    /\ normalized_url = <<>>
    /\ clean_title = <<>>
    /\ result = NoResult
    /\ applied = <<>>
    /\ renormalized_url = <<>>

\* no BookmarkParser instance has been constructed
TwoIdle ==
    /\ parsers = <<>>
    /\ inputs = <<>>
    /\ last_fed = 0
    /\ interleaved = FALSE

\* find_duplicate_bookmarks.py before it starts
FindIdle ==
    /\ output_file = FALSE
    /\ report_file = FALSE
    /\ url_counts = <<>>
    /\ unique_bookmarks_to_save = <<>>
    /\ duplicates = <<>>
    /\ report = "none"
    /\ clean_saved = FALSE

\* the JSON converters before a file is loaded
JsonIdle ==
    /\ roots = <<>>
    /\ bookmark_count = 0
    /\ written = <<>>

\* no result set has been listed
ListIdle ==
    /\ result_set = {}
    /\ iteration = <<>>
    /\ listed = <<>>

\* the batch runner before main is called
BatchIdle ==
    /\ targets = <<>>
    /\ batch_mode = "all"
    /\ modes_to_run = <<>>
    /\ html_files = <<>>
    /\ file_i = 0
    /\ mode_j = 0
    /\ runs = <<>>
    /\ script_present = FALSE
    /\ attempts = 0
    /\ last_outcome = "none"

\* the parser before it is constructed, its options apart
ParserRunIdle ==
    /\ bookmarks = <<>>
    /\ folders = {}
    /\ total_folder_counter = 0
    /\ is_in_a_tag = FALSE
    /\ is_in_h3_tag = FALSE
    /\ current_url = <<>>
    /\ current_title = <<>>
    /\ current_folder = <<>>
    /\ ev = NoEvent
    /\ own_text = <<>>
    /\ nevents = 0
    /\ open_tags = NoTags
    /\ paired = NoTags
    /\ b_set = {}
    /\ b_total = 0
    /\ f_set = {}
    /\ f_total = 0

ParserIdle ==
    /\ filter_enabled = FALSE
    /\ decode_enabled = FALSE
    /\ ParserRunIdle

\* the deduplication before it starts, its options apart
DedupRunIdle ==
    /\ all_bookmarks = <<>>
    /\ idx = 0
    /\ unique_bookmarks = <<>>
    /\ processed_items = <<>>
    /\ duplicate_groups = <<>>
    /\ sorted_groups = <<>>
    /\ total_bookmarks_count = 0
    /\ remaining_bookmarks_count = 0
    /\ total_removed_items = 0

DedupIdle ==
    /\ strict_protocol = FALSE
    /\ ignore_slash = FALSE
    /\ DedupRunIdle

\* state at line 74, before the first iteration of the loop
InitDedup ==
    /\ mode \in Modes
    /\ pc = "dedup_loop"
    /\ script = "deduplicate"
    /\ all_bookmarks \in SeqsUpTo(DedupPool, MaxBookmarks)
    /\ strict_protocol \in BOOLEAN
    /\ ignore_slash \in BOOLEAN
    /\ idx = 1
    /\ unique_bookmarks = <<>>
    /\ processed_items = <<>>
    /\ duplicate_groups = <<>>
    /\ sorted_groups = <<>>
    /\ total_bookmarks_count = Len(all_bookmarks)
    /\ remaining_bookmarks_count = 0
    /\ total_removed_items = 0
    /\ ParserIdle
    /\ RegexIdle
    /\ CompareIdle
    /\ MultiIdle
    /\ NormalizeIdle
    /\ TwoIdle
    /\ FindIdle
    /\ JsonIdle
    /\ ListIdle
    /\ BatchIdle

\* the key looked up in the entry added last only
DictIndex_LastEntry(d, key) ==
    IF d # <<>> /\ d[Len(d)].key = key THEN Len(d) ELSE 0

\* position of key in the dict, 0 when absent
DictIndex(d, key) ==
    LET hits == {i \in 1..Len(d) : d[i].key = key}
    IN  IF hits = {} THEN 0 ELSE CHOOSE i \in hits : TRUE

\* unique_bookmarks.append(original_item);
\* processed_items[key] = {'original': original_item, 'removed': []}
NewEntry(d, key, item) ==
    Append(d, [key |-> key, original |-> item, removed |-> <<>>])

\* a dict assignment that overwrites the entry of a repeated key
RecordRemoved_LastWins(d, at, item) ==
    [d EXCEPT ![at].original = item, ![at].removed = <<>>]

\* an assignment in place of the append: only the last duplicate is kept
RecordRemoved_KeepLast(d, at, item) ==
    [d EXCEPT ![at].removed = <<item>>]

\* processed_items[key]['removed'].append((url, title))
RecordRemoved(d, at, item) ==
    [d EXCEPT ![at].removed = Append(@, item)]

\* one iteration of "for url, title in all_bookmarks"
DedupStep ==
    /\ pc = "dedup_loop"
    /\ idx <= Len(all_bookmarks)
    /\ LET item == all_bookmarks[idx]
           key  == KeyOf(item)
           at   == DictIndex(processed_items, key)
       IN  IF at = 0
           THEN /\ unique_bookmarks' = Append(unique_bookmarks, item)
                /\ processed_items' = NewEntry(processed_items, key, item)
           ELSE /\ unique_bookmarks' = unique_bookmarks
                /\ processed_items' = RecordRemoved(processed_items, at, item)
    /\ idx' = idx + 1
    /\ UNCHANGED <<mode, pc, all_bookmarks, strict_protocol, ignore_slash,
                   duplicate_groups, sorted_groups, total_bookmarks_count,
                   remaining_bookmarks_count, total_removed_items, notDedup>>

\* {k: v for k, v in processed_items.items() if v['removed']}
RECURSIVE WithRemoved(_)
WithRemoved(d) ==
    IF d = <<>> THEN <<>>
    ELSE IF Head(d).removed # <<>> THEN <<Head(d)>> \o WithRemoved(Tail(d))
    ELSE WithRemoved(Tail(d))

\* lines 85-87, after the loop
DedupAnalyse ==
    /\ pc = "dedup_loop"
    /\ idx > Len(all_bookmarks)
    /\ remaining_bookmarks_count' = Len(unique_bookmarks)
    /\ duplicate_groups' = WithRemoved(processed_items)
    /\ total_removed_items' = total_bookmarks_count - Len(unique_bookmarks)
    /\ pc' = "dedup_report"
    /\ UNCHANGED <<mode, all_bookmarks, strict_protocol, ignore_slash, idx,
                   unique_bookmarks, processed_items, sorted_groups,
                   total_bookmarks_count, notDedup>>

\* sorted(..., key=lambda item: len(item[1]['removed']), reverse=True):
\* entries with equal keys keep the order they have in the dict
RECURSIVE InsertByRemoved(_, _)
InsertByRemoved(g, s) ==
    IF s = <<>> THEN <<g>>
    ELSE IF Len(Head(s).removed) >= Len(g.removed)
         THEN <<Head(s)>> \o InsertByRemoved(g, Tail(s))
         ELSE <<g>> \o s

\* the same sort with the dict reversed first, so that ties come out in
\* reverse insertion order
RECURSIVE SortByRemovedDesc_Unstable(_)
SortByRemovedDesc_Unstable(d) ==
    IF d = <<>> THEN <<>>
    ELSE InsertByRemoved(Head(d), SortByRemovedDesc_Unstable(Tail(d)))

RECURSIVE SortByRemovedDesc(_)
SortByRemovedDesc(d) ==
    IF d = <<>> THEN <<>>
    ELSE InsertByRemoved(d[Len(d)], SortByRemovedDesc(SubSeq(d, 1, Len(d) - 1)))

generate_report_file ==
    /\ pc = "dedup_report"
    /\ total_removed_items' = total_bookmarks_count - remaining_bookmarks_count
    /\ sorted_groups' = IF duplicate_groups = <<>> THEN <<>>
                        ELSE SortByRemovedDesc(duplicate_groups)
    /\ pc' = "dedup_done"
    /\ UNCHANGED <<mode, all_bookmarks, strict_protocol, ignore_slash, idx,
                   unique_bookmarks, processed_items, duplicate_groups,
                   total_bookmarks_count, remaining_bookmarks_count,
                   notDedup>>

NextDedup == DedupStep \/ DedupAnalyse \/ generate_report_file

SpecDedup == InitDedup /\ [][NextDedup]_vars

(***************************************************************************)
(* BookmarkParser (html.parser.HTMLParser callbacks)                       *)
(***************************************************************************)
\* str.strip(): the only whitespace character of the inputs is the blank
RECURSIVE LStrip(_)
LStrip(s) == IF Len(s) > 0 /\ s[1] = " " THEN LStrip(Tail(s)) ELSE s

RECURSIVE RStrip(_)
RStrip(s) ==
    IF Len(s) > 0 /\ s[Len(s)] = " " THEN RStrip(SubSeq(s, 1, Len(s) - 1))
    ELSE s

Strip(s) == LStrip(RStrip(s))

\* chr() on the code points of CharTable
ChrOf(n) == (CHOOSE e \in Range(CharTable) : e[2] = n)[1]

\* str.lower(), character by character
LowerChar(c) ==
    IF CharCode(c) >= 65 /\ CharCode(c) <= 90 THEN ChrOf(CharCode(c) + 32)
    ELSE c

Lower(s) == [i \in 1..Len(s) |-> LowerChar(s[i])]

HexTable ==
    << <<"0", 0>>, <<"1", 1>>, <<"2", 2>>, <<"3", 3>>, <<"4", 4>>,
       <<"5", 5>>, <<"6", 6>>, <<"7", 7>>, <<"8", 8>>, <<"9", 9>>,
       <<"a", 10>>, <<"b", 11>>, <<"c", 12>>, <<"d", 13>>, <<"e", 14>>,
       <<"f", 15>>, <<"A", 10>>, <<"B", 11>>, <<"C", 12>>, <<"D", 13>>,
       <<"E", 14>>, <<"F", 15>> >>

IsHex(c) == \E e \in Range(HexTable) : e[1] = c

HexVal(c) == (CHOOSE e \in Range(HexTable) : e[1] = c)[2]

\* urllib.parse.unquote on ASCII input: every %XX with two hex digits is
\* replaced by chr(0xXX), any other % is left as it is. The inputs only
\* encode code points of CharTable.
RECURSIVE Unquote(_)
Unquote(s) ==
    IF s = <<>> THEN <<>>
    ELSE IF s[1] = "%" /\ Len(s) >= 3 /\ IsHex(s[2]) /\ IsHex(s[3])
         THEN <<ChrOf(16 * HexVal(s[2]) + HexVal(s[3]))>>
                  \o Unquote(SubSeq(s, 4, Len(s)))
         ELSE <<s[1]>> \o Unquote(Tail(s))

\* normalized_url.lower().startswith(('http', 'https', 'ftp'))
PassesFilter(url) ==
    \/ StartsWith(Lower(url), <<"h", "t", "t", "p">>)
    \/ StartsWith(Lower(url), <<"h", "t", "t", "p", "s">>)
    \/ StartsWith(Lower(url), <<"f", "t", "p">>)

\* dict(attrs).get('href', ''): the last href pair wins
HrefOf(attrs) ==
    LET hits == {i \in 1..Len(attrs) : attrs[i][1] = "href"}
    IN  IF hits = {} THEN <<>>
        ELSE attrs[CHOOSE i \in hits : \A j \in hits : j <= i][2]

\* the href values, attribute lists, tag names and text nodes of the inputs
HrefPool ==
    { <<>>,
      S_http \o <<"a", "b">>,
      <<"m", ":", "a">>,
      <<"F", "T", "P", ":", "a">>,
      <<"%", "6", "8", "t", "t", "p", ":", "/", "/", "a", "b">> }

AttrPool == {<<>>} \cup {<< <<"href", u>> >> : u \in HrefPool}

TagPool == {"a", "h3", "dt"}

DataPool == { <<"A">>, <<" ", "B", " ">>, <<" ">> }

\* the two scripts that define a BookmarkParser
Scripts == {"compare_stream", "multi_stream"}

\* the parser as __init__ leaves it
InitParser ==
    /\ mode \in Modes
    /\ pc = "feed"
    /\ script \in Scripts
    /\ filter_enabled \in BOOLEAN
    /\ decode_enabled \in BOOLEAN
    /\ bookmarks = <<>>
    /\ folders = {}
    /\ total_folder_counter = 0
    /\ is_in_a_tag = FALSE
    /\ is_in_h3_tag = FALSE
    /\ current_url = <<>>
    /\ current_title = <<>>
    /\ current_folder = <<>>
    /\ ev = NoEvent
    /\ own_text = <<>>
    /\ nevents = 0
    /\ open_tags = NoTags
    /\ paired = NoTags
    /\ b_set = {}
    /\ b_total = 0
    /\ f_set = {}
    /\ f_total = 0
    /\ DedupIdle
    /\ RegexIdle
    /\ CompareIdle
    /\ MultiIdle
    /\ NormalizeIdle
    /\ TwoIdle
    /\ FindIdle
    /\ JsonIdle
    /\ ListIdle
    /\ BatchIdle

\* the event is delivered and counted
Deliver(kind, tag) ==
    /\ pc = "feed"
    /\ nevents < MaxEvents
    /\ nevents' = nevents + 1
    /\ ev' = [kind |-> kind, tag |-> tag,
              url |-> IF kind = "end" /\ tag = "a" THEN current_url ELSE <<>>]
    /\ open_tags' =
          IF tag \notin {"a", "h3"} \/ kind = "data" THEN open_tags
          ELSE IF kind = "start" THEN [open_tags EXCEPT ![tag] = @ + 1]
          ELSE [open_tags EXCEPT ![tag] = 0]
    /\ paired' =
          IF tag \in {"a", "h3"} /\ kind = "end"
          THEN [paired EXCEPT ![tag] = @ + open_tags[tag]]
          ELSE paired
    /\ UNCHANGED <<b_set, b_total, f_set, f_total>>

\* every tag that is not h3 taken for an anchor
TagIs_ElseAnchor(tag, name) == IF name = "a" THEN tag # "h3" ELSE tag = name

\* lines 38, 43, 55 and 82: tag == 'a', tag == 'h3'
TagIs(tag, name) == tag = name

handle_starttag(tag, attrs) ==
    /\ Deliver("start", tag)
    /\ IF TagIs(tag, "a")
       THEN /\ is_in_a_tag' = TRUE
            /\ current_url' = HrefOf(attrs)
            /\ own_text' = <<>>
            /\ UNCHANGED is_in_h3_tag
       ELSE IF TagIs(tag, "h3")
       THEN /\ is_in_h3_tag' = TRUE
            /\ UNCHANGED <<is_in_a_tag, current_url, own_text>>
       ELSE UNCHANGED <<is_in_a_tag, current_url, own_text, is_in_h3_tag>>
    /\ UNCHANGED <<mode, pc, notParser, filter_enabled, decode_enabled,
                   bookmarks, folders, total_folder_counter, current_title,
                   current_folder>>

handle_data(data) ==
    /\ Deliver("data", "")
    /\ IF is_in_a_tag
       THEN /\ current_title' = current_title \o data
            /\ UNCHANGED current_folder
       ELSE IF is_in_h3_tag
       THEN /\ current_folder' = current_folder \o data
            /\ UNCHANGED current_title
       ELSE UNCHANGED <<current_title, current_folder>>
    /\ own_text' = own_text \o data
    /\ UNCHANGED <<mode, pc, notParser, filter_enabled, decode_enabled,
                   bookmarks, folders, total_folder_counter, is_in_a_tag,
                   is_in_h3_tag, current_url>>

\* lines 59-61: normalized_url
NormalizedUrl(url) == IF decode_enabled THEN Unquote(url) ELSE url

\* the filter applied to the url as the file has it
ShouldAdd_RawUrl(url) == ~filter_enabled \/ PassesFilter(url)

\* lines 64-67: should_add
ShouldAdd(url) == ~filter_enabled \/ PassesFilter(NormalizedUrl(url))

\* lines 70-75: the entry appended for the mode
EntryFor(url, title) ==
    IF mode = "url" THEN NormalizedUrl(url)
    ELSE <<NormalizedUrl(url), Strip(title)>>

\* the reset moved inside "if self.current_url:"
AnchorReset_OnlyWithUrl ==
    IF current_url # <<>>
    THEN /\ is_in_a_tag' = FALSE
         /\ current_url' = <<>>
         /\ current_title' = <<>>
    ELSE UNCHANGED <<is_in_a_tag, current_url, current_title>>

\* the reset without line 80
AnchorReset_KeepTitle ==
    /\ is_in_a_tag' = FALSE
    /\ current_url' = <<>>
    /\ UNCHANGED current_title

\* lines 78-80: reset of the anchor state
AnchorReset ==
    /\ is_in_a_tag' = FALSE
    /\ current_url' = <<>>
    /\ current_title' = <<>>

\* compare_multi's guard "if folder_name:" applied to the counter as well
FolderCount_SkipEmpty(name) == IF name # <<>> THEN 1 ELSE 0

\* self.total_folder_counter += 1
FolderCount(name) == 1

\* compare_bookmarks_流式解析.py: self.folders.add(self.current_folder.strip())
FoldersAfter_compare(name) == folders \cup {name}

\* compare_multi_bookmarks_流式解析.py: if folder_name: self.folders.add(...)
FoldersAfter_multi(name) == IF name # <<>> THEN folders \cup {name} ELSE folders

handle_endtag(tag) ==
    /\ Deliver("end", tag)
    /\ IF TagIs(tag, "a")
       THEN /\ bookmarks' =
                   IF current_url # <<>> /\ ShouldAdd(current_url)
                   THEN Append(bookmarks, EntryFor(current_url, current_title))
                   ELSE bookmarks
            /\ AnchorReset
            /\ own_text' = <<>>
            /\ UNCHANGED <<folders, total_folder_counter, is_in_h3_tag,
                           current_folder>>
       ELSE IF TagIs(tag, "h3")
       THEN /\ total_folder_counter' =
                   total_folder_counter + FolderCount(Strip(current_folder))
            /\ folders' = IF script = "compare_stream"
                          THEN FoldersAfter_compare(Strip(current_folder))
                          ELSE FoldersAfter_multi(Strip(current_folder))
            /\ is_in_h3_tag' = FALSE
            /\ current_folder' = <<>>
            /\ UNCHANGED <<bookmarks, is_in_a_tag, current_url, current_title,
                           own_text>>
       ELSE UNCHANGED <<bookmarks, folders, total_folder_counter, is_in_a_tag,
                        is_in_h3_tag, current_url, current_title,
                        current_folder, own_text>>
    /\ UNCHANGED <<mode, pc, notParser, filter_enabled, decode_enabled>>

\* the number of distinct keys in place of the number of occurrences
TotalOf_Unique(all_valid_bookmarks) == Cardinality(Range(all_valid_bookmarks))

\* line 113: total_bookmarks_count = len(all_valid_bookmarks)
TotalOf(all_valid_bookmarks) == Len(all_valid_bookmarks)

\* lines 108-121: feed() has returned at the end of the file's text
parse_bookmarks_file_fast ==
    /\ pc = "feed"
    /\ b_set' = Range(bookmarks)
    /\ b_total' = TotalOf(bookmarks)
    /\ f_set' = folders
    /\ f_total' = total_folder_counter
    /\ pc' = "parsed"
    /\ UNCHANGED <<mode, notParser, filter_enabled, decode_enabled, bookmarks,
                   folders, total_folder_counter, is_in_a_tag, is_in_h3_tag,
                   current_url, current_title, current_folder, ev, own_text,
                   nevents, open_tags, paired>>

NextParser ==
    \/ \E tag \in TagPool, attrs \in AttrPool : handle_starttag(tag, attrs)
    \/ \E data \in DataPool : handle_data(data)
    \/ \E tag \in TagPool : handle_endtag(tag)
    \/ parse_bookmarks_file_fast

SpecParser == InitParser /\ [][NextParser]_vars

(***************************************************************************)
(* parse_bookmarks_file of compare_bookmarks.py: regular expressions over  *)
(* the file's text. The text is a sequence of tokens, each one start tag,  *)
(* one text node or one end tag, written on a single line, attribute       *)
(* values in double quotes.                                                *)
(***************************************************************************)
StartTok(tag, attrs) == [kind |-> "start", tag |-> tag, arg |-> attrs]

DataTok(data) == [kind |-> "data", tag |-> "", arg |-> data]

EndTok(tag) == [kind |-> "end", tag |-> tag, arg |-> <<>>]

TokenPool ==
    { StartTok("a", << <<"href", S_http \o <<"a", "b">> >> >>),
      StartTok("a", << <<"href", <<"m", ":", "a">> >> >>),
      StartTok("a", <<>>),
      StartTok("h3", <<>>),
      DataTok(<<" ", "A">>),
      EndTok("a"),
      EndTok("h3") }

HasHref(attrs) == \E i \in 1..Len(attrs) : attrs[i][1] = "href"

\* the value the group (.*?) after href=["'] captures: the first href
FirstHref(attrs) ==
    attrs[CHOOSE i \in 1..Len(attrs) :
            /\ attrs[i][1] = "href"
            /\ \A j \in 1..(i - 1) : attrs[j][1] # "href"][2]

\* <a\s+[^>]*href=["'](.*?)["'] and <h3[^>]*> match at this token
OpensAt(tok, tag) ==
    /\ tok.kind = "start"
    /\ tok.tag = tag
    /\ tag = "a" => HasHref(tok.arg)

ClosesAt(tok, tag) == tok.kind = "end" /\ tok.tag = tag

\* findall of "<open>(.*?)</tag>": the matches from token i on, left to
\* right and not overlapping, each one <<open token, first later close>>
RECURSIVE FindAll(_, _, _)
FindAll(c, i, tag) ==
    IF i > Len(c) THEN <<>>
    ELSE LET closes == {j \in (i + 1)..Len(c) : ClosesAt(c[j], tag)}
         IN  IF OpensAt(c[i], tag) /\ closes # {}
             THEN LET j == CHOOSE k \in closes : \A l \in closes : k <= l
                  IN  << <<i, j>> >> \o FindAll(c, j + 1, tag)
             ELSE FindAll(c, i + 1, tag)

\* re.sub(r'<.*?>', '', raw).strip() of the text between tokens i and j
RECURSIVE TextBetween(_, _, _)
TextBetween(c, i, j) ==
    IF i + 1 >= j THEN <<>>
    ELSE (IF c[i + 1].kind = "data" THEN c[i + 1].arg ELSE <<>>)
             \o TextBetween(c, i + 1, j)

CleanBetween(c, i, j) == Strip(TextBetween(c, i, j))

\* lines 23-25
RegexFolders(c) ==
    {CleanBetween(c, m[1], m[2]) : m \in Range(FindAll(c, 1, "h3"))}

\* lines 28-31, mode 'url': the pattern ends at the href value
RegexUrls(c) ==
    {FirstHref(c[i].arg) : i \in {k \in 1..Len(c) : OpensAt(c[k], "a")}}

\* lines 32-38, mode 'url-title'
RegexUrlTitles(c) ==
    {<<FirstHref(c[m[1]].arg), CleanBetween(c, m[1], m[2])>> :
        m \in Range(FindAll(c, 1, "a"))}

InitRegex ==
    /\ mode \in Modes
    /\ pc = "rx_parse"
    /\ script = "compare_regex"
    /\ content \in SeqsUpTo(TokenPool, MaxTokens)
    /\ rx_bookmarks = {}
    /\ rx_folders = {}
    /\ DedupIdle
    /\ ParserIdle
    /\ CompareIdle
    /\ MultiIdle
    /\ NormalizeIdle
    /\ TwoIdle
    /\ FindIdle
    /\ JsonIdle
    /\ ListIdle
    /\ BatchIdle

parse_bookmarks_file ==
    /\ pc = "rx_parse"
    /\ rx_folders' = RegexFolders(content)
    /\ rx_bookmarks' = IF mode = "url" THEN RegexUrls(content)
                       ELSE RegexUrlTitles(content)
    /\ pc' = "rx_done"
    /\ UNCHANGED <<mode, content, notRegex>>

NextRegex == parse_bookmarks_file

SpecRegex == InitRegex /\ [][NextRegex]_vars

(***************************************************************************)
(* generate_report of compare_bookmarks_流式解析.py and compare_bookmarks.py *)
(***************************************************************************)
\* the bookmark keys and folder names the compared files are made of
KeyPool(m) ==
    IF m = "url"
    THEN { S_http \o <<"a", "b">>, <<"m", ":", "a">>, <<"a", "a">> }
    ELSE { << S_http \o <<"a", "b">>, <<"A">> >>,
           << S_http \o <<"a", "b">>, <<"B">> >>,
           << <<"a", "a">>, <<"A">> >> }

FolderPool == { <<"W">>, <<"P">>, <<"T">> }

\* both files have been parsed (lines 130-134)
InitCompare ==
    /\ mode \in Modes
    /\ pc = "compare"
    /\ script \in {"compare_stream", "compare_regex"}
    /\ bookmarks1_set \in SUBSET KeyPool(mode)
    /\ bookmarks2_set \in SUBSET KeyPool(mode)
    /\ folders1_set \in SUBSET FolderPool
    /\ folders2_set \in SUBSET FolderPool
    /\ bookmarks_only_in_1 = {}
    /\ bookmarks_only_in_2 = {}
    /\ folders_only_in_1 = {}
    /\ folders_only_in_2 = {}
    /\ DedupIdle
    /\ ParserIdle
    /\ RegexIdle
    /\ MultiIdle
    /\ NormalizeIdle
    /\ TwoIdle
    /\ FindIdle
    /\ JsonIdle
    /\ ListIdle
    /\ BatchIdle

\* the operator ^ in place of -
Minus_Symmetric(a, b) == (a \ b) \cup (b \ a)

\* set.__sub__
Minus(a, b) == a \ b

\* lines 138-141
generate_report ==
    /\ pc = "compare"
    /\ bookmarks_only_in_1' = Minus(bookmarks1_set, bookmarks2_set)
    /\ bookmarks_only_in_2' = Minus(bookmarks2_set, bookmarks1_set)
    /\ folders_only_in_1' = Minus(folders1_set, folders2_set)
    /\ folders_only_in_2' = Minus(folders2_set, folders1_set)
    /\ pc' = "compare_done"
    /\ UNCHANGED <<mode, bookmarks1_set, bookmarks2_set, folders1_set,
                   folders2_set, notCompare>>

NextCompare == generate_report

SpecCompare == InitCompare /\ [][NextCompare]_vars

(***************************************************************************)
(* analyze_multiple_files of compare_multi_bookmarks_流式解析.py and         *)
(* generate_multi_report of compare_multi_bookmarks.py. all_data holds the *)
(* parsed files in the order of the command line; the paths are distinct.  *)
(***************************************************************************)
MultiFolderPool == { <<"W">> }

FilePool(m) == [b_set : SUBSET KeyPool(m), f_set : SUBSET MultiFolderPool]

\* the file is missing or unreadable: the parse function returns None
Unreadable == [readable |-> FALSE, b_set |-> {}, f_set |-> {}]

\* what the parse function returns for a file of the command line
ParseResults(m) ==
    {[readable |-> TRUE, b_set |-> d.b_set, f_set |-> d.f_set] :
        d \in FilePool(m)} \cup {Unreadable}

\* main() refuses fewer than two files
InitMulti ==
    /\ mode \in Modes
    /\ pc = "multi"
    /\ script \in {"multi_stream", "multi_regex"}
    /\ \E n \in 2..MaxFiles : files \in [1..n -> ParseResults(mode)]
    /\ all_data = <<>>
    /\ analysis_mode \in IF script = "multi_stream"
                         THEN {"intersection", "unique"}
                         ELSE {"none"}
    /\ common_bookmarks = {}
    /\ common_folders = {}
    /\ unique_items = <<>>
    /\ DedupIdle
    /\ ParserIdle
    /\ RegexIdle
    /\ CompareIdle
    /\ NormalizeIdle
    /\ TwoIdle
    /\ FindIdle
    /\ JsonIdle
    /\ ListIdle
    /\ BatchIdle

BSets(d) == [i \in 1..Len(d) |-> d[i].b_set]

FSets(d) == [i \in 1..Len(d) |-> d[i].f_set]

\* difference_update in place of intersection_update
IntersectionUpdate_Difference(common, other) == common \ other

\* set.intersection_update
IntersectionUpdate(common, other) == common \cap other

\* lines 158-164: a copy of the first set, updated with each later one
RECURSIVE IterIntersect(_)
IterIntersect(sets) ==
    IF Len(sets) = 1 THEN sets[1]
    ELSE IntersectionUpdate(IterIntersect(SubSeq(sets, 1, Len(sets) - 1)),
                            sets[Len(sets)])

\* set.intersection(*sets)
IntersectAll(sets) == {k \in sets[1] : \A i \in 1..Len(sets) : k \in sets[i]}

\* the union of the later files only
OthersUnion_Later(sets, i) == UNION {sets[j] : j \in (i + 1)..Len(sets)}

\* lines 186-191: the union of the sets of every other file
OthersUnion(sets, i) == UNION {sets[j] : j \in (1..Len(sets)) \ {i}}

\* lines 185-194
UniqueItems(d) ==
    [i \in 1..Len(d) |->
        [bookmarks |-> Minus(d[i].b_set, OthersUnion(BSets(d), i)),
         folders   |-> Minus(d[i].f_set, OthersUnion(FSets(d), i))]]

\* all_data[f] = {'b_set': b_set, ..., 'f_set': f_set, ...}
DataOf(r) == [b_set |-> r.b_set, f_set |-> r.f_set]

\* lines 126-132: the files that fail to parse are skipped
RECURSIVE ParsedFiles(_)
ParsedFiles(fs) ==
    IF fs = <<>> THEN <<>>
    ELSE (IF Head(fs).readable THEN <<DataOf(Head(fs))>> ELSE <<>>)
             \o ParsedFiles(Tail(fs))

\* compare_multi_bookmarks.py lines 55-58: the files before the first one
\* that fails to parse
RECURSIVE ParsedUntilFailure(_)
ParsedUntilFailure(fs) ==
    IF fs = <<>> \/ ~Head(fs).readable THEN <<>>
    ELSE <<DataOf(Head(fs))>> \o ParsedUntilFailure(Tail(fs))

\* lines 126-222; the report is written when pc is "multi_done"
analyze_multiple_files ==
    /\ pc = "multi"
    /\ script = "multi_stream"
    /\ all_data' = ParsedFiles(files)
    /\ IF Len(all_data') < 2
       THEN /\ pc' = "multi_aborted"
            /\ UNCHANGED <<common_bookmarks, common_folders, unique_items>>
       ELSE /\ IF analysis_mode = "intersection"
               THEN /\ common_bookmarks' = IterIntersect(BSets(all_data'))
                    /\ common_folders' = IterIntersect(FSets(all_data'))
                    /\ UNCHANGED unique_items
               ELSE /\ unique_items' = UniqueItems(all_data')
                    /\ UNCHANGED <<common_bookmarks, common_folders>>
            /\ pc' = "multi_done"
    /\ UNCHANGED <<mode, files, analysis_mode, notMulti>>

\* compare_multi_bookmarks.py lines 53-80: it returns at the first file
\* that fails to parse, and makes both analyses otherwise
generate_multi_report ==
    /\ pc = "multi"
    /\ script = "multi_regex"
    /\ all_data' = ParsedUntilFailure(files)
    /\ IF Len(all_data') < Len(files)
       THEN /\ pc' = "multi_aborted"
            /\ UNCHANGED <<common_bookmarks, common_folders, unique_items>>
       ELSE /\ common_bookmarks' = IntersectAll(BSets(all_data'))
            /\ common_folders' = IntersectAll(FSets(all_data'))
            /\ unique_items' = UniqueItems(all_data')
            /\ pc' = "multi_done"
    /\ UNCHANGED <<mode, files, analysis_mode, notMulti>>

NextMulti == analyze_multiple_files \/ generate_multi_report

SpecMulti == InitMulti /\ [][NextMulti]_vars

(***************************************************************************)
(* Properties of BookmarkParser.                                           *)
(***************************************************************************)
\* the step delivers EndTag(tag)
IsEndTag(tag) ==
    /\ nevents' = nevents + 1
    /\ ev'.kind = "end"
    /\ ev'.tag = tag

\* C7: every EndTag(a) appends exactly one bookmark when current_url is
\* non-empty and passes the filter, appends none otherwise (none at all when
\* current_url is empty), and always leaves is_in_a_tag false and
\* current_url and current_title empty.
C7_EndTagA ==
    [][IsEndTag("a") =>
        /\ IF current_url # <<>> /\ ShouldAdd(current_url)
           THEN /\ Len(bookmarks') = Len(bookmarks) + 1
                /\ SubSeq(bookmarks', 1, Len(bookmarks)) = bookmarks
           ELSE bookmarks' = bookmarks
        /\ current_url = <<>> => bookmarks' = bookmarks
        /\ ~is_in_a_tag'
        /\ current_url' = <<>>
        /\ current_title' = <<>>]_vars

\* an EndTag(a) has just emitted, with the filter on, the only bookmark of a
\* run in which an earlier event sequence emitted nothing
C7_Witness ==
    /\ ev.kind = "end"
    /\ ev.tag = "a"
    /\ filter_enabled
    /\ Len(bookmarks) = 1
    /\ nevents = 4
    /\ ~is_in_a_tag
    /\ current_url = <<>>
    /\ current_title = <<>>

\* C9 as claimed: the title of every bookmark emitted in url-title mode is
\* the (trimmed) concatenation of exactly the text nodes between the link's
\* own StartTag(a), the one its url comes from, and its EndTag(a).
C9_TitleOwnText ==
    [][(IsEndTag("a") /\ mode = "url-title"
            /\ Len(bookmarks') = Len(bookmarks) + 1)
        => bookmarks'[Len(bookmarks')][2] = Strip(own_text)]_vars

\* C10 as claimed: every EndTag(h3) increments the folder counter by one,
\* adds the trimmed heading text to the folder set and resets the heading
\* state.
C10_Original ==
    [][IsEndTag("h3") =>
        /\ total_folder_counter' = total_folder_counter + 1
        /\ folders' = folders \cup {Strip(current_folder)}
        /\ ~is_in_h3_tag'
        /\ current_folder' = <<>>]_vars

\* C10 as amended: every EndTag(h3) increments the folder counter by one and
\* resets the heading state; the trimmed heading text is added to the folder
\* set, except that the parser of compare_multi_bookmarks_流式解析.py adds
\* nothing when the trimmed text is empty.
C10_EndTagH3 ==
    [][IsEndTag("h3") =>
        /\ total_folder_counter' = total_folder_counter + 1
        /\ folders' = IF script = "multi_stream" /\ Strip(current_folder) = <<>>
                      THEN folders
                      ELSE folders \cup {Strip(current_folder)}
        /\ ~is_in_h3_tag'
        /\ current_folder' = <<>>]_vars

\* compare_multi's parser after two EndTag(h3), one with the heading text
\* " B " and one with no heading text: both counted, one folder
C10_Witness ==
    /\ script = "multi_stream"
    /\ ev.kind = "end"
    /\ ev.tag = "h3"
    /\ nevents = 4
    /\ total_folder_counter = 2
    /\ folders = {<<"B">>}
    /\ ~is_in_h3_tag
    /\ current_folder = <<>>

(***************************************************************************)
(* Properties of the parsers at end of input.                              *)
(***************************************************************************)
\* token i opens an entity of the tag and a close tag of the tag follows
ClosedOpen(c, i, tag) ==
    /\ OpensAt(c[i], tag)
    /\ \E j \in (i + 1)..Len(c) : ClosesAt(c[j], tag)

\* the url of a bookmark key of the mode
UrlOfKey(k) == IF mode = "url" THEN k ELSE k[1]

\* C8 as claimed, for parse_bookmarks_file: in both modes every collected
\* bookmark has the href of an <a> that a later </a> closes and every
\* collected folder comes from an <h3> that a later </h3> closes, so an
\* entity opened and never closed before end of input yields nothing.
C8_NoUnclosedEntity ==
    pc = "rx_done" =>
        /\ \A b \in rx_bookmarks :
              \E i \in 1..Len(content) :
                  /\ ClosedOpen(content, i, "a")
                  /\ FirstHref(content[i].arg) = UrlOfKey(b)
        /\ rx_folders # {} =>
              \E i \in 1..Len(content) : ClosedOpen(content, i, "h3")

\* the same policy for BookmarkParser: the collected bookmarks change only
\* in an EndTag(a) step, the folder set and counter only in an EndTag(h3)
\* step
StreamEmitsOnlyOnClose ==
    [][/\ bookmarks' # bookmarks => IsEndTag("a")
       /\ (folders' # folders \/ total_folder_counter' # total_folder_counter)
              => IsEndTag("h3")]_vars

(***************************************************************************)
(* Properties of the deduplication.                                        *)
(***************************************************************************)
\* the occurrences the loop has processed so far, in parse order
Processed == SubSeq(all_bookmarks, 1, idx - 1)

\* the processed occurrences that map to key, in parse order
OccurrencesOf(key) == SelectSeq(Processed, LAMBDA it : KeyOf(it) = key)

RECURSIVE SumRemoved(_)
SumRemoved(d) ==
    IF d = <<>> THEN 0 ELSE Len(Head(d).removed) + SumRemoved(Tail(d))

\* CanonicalKey order: str order in url mode, tuple order (url, then title)
\* in url-title mode
KeyLess(k1, k2) ==
    IF mode = "url" THEN StrLess(k1, k2)
    ELSE \/ StrLess(k1[1], k2[1])
         \/ k1[1] = k2[1] /\ StrLess(k1[2], k2[2])

\* position in parse order of the first occurrence that maps to key
FirstPos(key) ==
    CHOOSE i \in 1..Len(all_bookmarks) :
        /\ KeyOf(all_bookmarks[i]) = key
        /\ \A j \in 1..(i - 1) : KeyOf(all_bookmarks[j]) # key

\* C1: first-seen deduplication. In both key modes, after any number of
\* iterations, each key's kept entry is its first occurrence in parse order,
\* its removed list holds every later occurrence in parse order, every
\* processed key has exactly one entry, and once the loop is over a
\* duplicate group exists for a key iff the key has a removed occurrence.
C1_FirstSeen ==
    pc \in {"dedup_loop", "dedup_report", "dedup_done"} =>
        /\ \A i \in 1..Len(processed_items) :
              LET e == processed_items[i]
              IN  /\ OccurrencesOf(e.key) # <<>>
                  /\ e.original = Head(OccurrencesOf(e.key))
                  /\ e.removed = Tail(OccurrencesOf(e.key))
                  /\ unique_bookmarks[i] = e.original
        /\ Len(unique_bookmarks) = Len(processed_items)
        /\ \A i \in 1..Len(Processed) :
              Cardinality({j \in 1..Len(processed_items) :
                  processed_items[j].key = KeyOf(Processed[i])}) = 1
        /\ pc # "dedup_loop" =>
              \A i \in 1..Len(processed_items) :
                  (\E j \in 1..Len(duplicate_groups) :
                       duplicate_groups[j] = processed_items[i])
                  <=> Len(OccurrencesOf(processed_items[i].key)) >= 2

\* a finished run with two kept entries, one of which has two removed
\* occurrences, one of them with a raw url other than the kept one's
C1_Witness ==
    /\ pc = "dedup_done"
    /\ Len(unique_bookmarks) >= 2
    /\ \E j \in 1..Len(duplicate_groups) :
          /\ Len(duplicate_groups[j].removed) = 2
          /\ duplicate_groups[j].removed[1] # duplicate_groups[j].original

\* C2: dedup conservation. Once the loop is over, the kept entries plus the
\* removed entries of all duplicate groups are the parsed occurrences, and
\* the reported removed total is the sum of the groups' removed counts.
C2_Conservation ==
    pc \in {"dedup_report", "dedup_done"} =>
        /\ Len(unique_bookmarks) + SumRemoved(duplicate_groups)
               = total_bookmarks_count
        /\ remaining_bookmarks_count = Len(unique_bookmarks)
        /\ total_bookmarks_count = Len(all_bookmarks)
        /\ total_removed_items = SumRemoved(duplicate_groups)

\* a reported run over five occurrences with two groups and a kept entry
\* that has no duplicate
C2_Witness ==
    /\ pc = "dedup_done"
    /\ total_bookmarks_count = 5
    /\ Len(duplicate_groups) = 2
    /\ remaining_bookmarks_count = 3
    /\ total_removed_items = 2

\* groups come in descending order of removed-count
GroupsDescending ==
    \A i, j \in 1..Len(sorted_groups) :
        i < j => Len(sorted_groups[i].removed) >= Len(sorted_groups[j].removed)

\* C3 as claimed: the reported groups are in descending order of
\* removed-count and groups with equal removed-count are in CanonicalKey
\* order.
C3_Original ==
    pc = "dedup_done" =>
        /\ GroupsDescending
        /\ \A i, j \in 1..Len(sorted_groups) :
              (i < j /\ Len(sorted_groups[i].removed)
                          = Len(sorted_groups[j].removed))
              => KeyLess(sorted_groups[i].key, sorted_groups[j].key)

\* C3 as amended: the reported groups are exactly the duplicate groups, in
\* descending order of removed-count, and groups with equal removed-count
\* are in the order in which their keys first occur in the file.
C3_SortedGroups ==
    pc = "dedup_done" =>
        /\ GroupsDescending
        /\ Len(sorted_groups) = Len(duplicate_groups)
        /\ Range(sorted_groups) = Range(duplicate_groups)
        /\ \A i, j \in 1..Len(sorted_groups) :
              (i < j /\ Len(sorted_groups[i].removed)
                          = Len(sorted_groups[j].removed))
              => FirstPos(sorted_groups[i].key) < FirstPos(sorted_groups[j].key)

\* a report of two groups of equal size whose order in the file is not
\* their key order
C3_Witness ==
    /\ pc = "dedup_done"
    /\ Len(sorted_groups) = 2
    /\ Len(sorted_groups[1].removed) = Len(sorted_groups[2].removed)
    /\ KeyLess(sorted_groups[2].key, sorted_groups[1].key)

(***************************************************************************)
(* Properties of the comparisons.                                          *)
(***************************************************************************)
\* only_a is what a has and b has not; it shares nothing with only_b, and
\* with the intersection of a and b it makes up a
Complementary(a, b, only_a, only_b) ==
    /\ \A k \in a \cup b \cup only_a : k \in only_a <=> (k \in a /\ k \notin b)
    /\ only_a \cap only_b = {}
    /\ only_a \cup (a \cap b) = a

\* C4: pairwise diff complementarity, for the bookmark keys and for the
\* folder names, in both directions.
C4_Complementarity ==
    pc = "compare_done" =>
        /\ Complementary(bookmarks1_set, bookmarks2_set,
                         bookmarks_only_in_1, bookmarks_only_in_2)
        /\ Complementary(bookmarks2_set, bookmarks1_set,
                         bookmarks_only_in_2, bookmarks_only_in_1)
        /\ Complementary(folders1_set, folders2_set,
                         folders_only_in_1, folders_only_in_2)
        /\ Complementary(folders2_set, folders1_set,
                         folders_only_in_2, folders_only_in_1)

\* scenario 2, in a run whose bookmark sets overlap without being equal
C4_Witness ==
    /\ pc = "compare_done"
    /\ folders1_set = {<<"W">>, <<"P">>}
    /\ folders2_set = {<<"W">>, <<"T">>}
    /\ folders_only_in_1 = {<<"P">>}
    /\ folders_only_in_2 = {<<"T">>}
    /\ bookmarks1_set \cap bookmarks2_set # {}
    /\ bookmarks_only_in_1 # {}
    /\ bookmarks_only_in_2 # {}

\* the permutations of 1..n, for every number n of files
Perms ==
    UNION {{f \in [1..n -> 1..n] : \A i, j \in 1..n : f[i] = f[j] => i = j} :
              n \in 1..MaxFiles}

IntersectionComputed ==
    /\ pc = "multi_done"
    /\ script = "multi_regex" \/ analysis_mode = "intersection"

UniqueComputed ==
    /\ pc = "multi_done"
    /\ script = "multi_regex" \/ analysis_mode = "unique"

\* the reported intersection is what the iteration returns for every order
\* of the sets and for every split into two sub-intersections
OrderFree(sets, common) ==
    /\ \A p \in Perms :
          Len(p) = Len(sets) =>
              IterIntersect([i \in 1..Len(sets) |-> sets[p[i]]]) = common
    /\ \A k \in 1..(Len(sets) - 1) :
          IterIntersect(<<IterIntersect(SubSeq(sets, 1, k)),
                          IterIntersect(SubSeq(sets, k + 1, Len(sets)))>>)
              = common

\* C5: the N-way intersection of the bookmark keys and of the folder names
\* does not depend on the order or the grouping of the collections.
C5_IntersectionOrder ==
    IntersectionComputed =>
        /\ OrderFree(BSets(all_data), common_bookmarks)
        /\ OrderFree(FSets(all_data), common_folders)

\* three files with three different key sets and a non-empty intersection
\* that is none of them
C5_Witness ==
    /\ IntersectionComputed
    /\ script = "multi_stream"
    /\ Len(all_data) = 3
    /\ common_bookmarks # {}
    /\ \A i \in 1..3 : common_bookmarks # all_data[i].b_set
    /\ common_folders # {}

\* the files that contain the key
Holders(sets, k) == {i \in 1..Len(sets) : k \in sets[i]}

\* unique_i is keys_i minus the others' keys, the unique sets are pairwise
\* disjoint, and a key of two or more files is in no unique set, whether
\* all files have it (then it is in the intersection) or not (then it is
\* not)
UniqueComplement(sets, uniq) ==
    /\ \A i \in 1..Len(sets) :
          uniq[i] = {k \in sets[i] :
                        \A j \in (1..Len(sets)) \ {i} : k \notin sets[j]}
    /\ \A i, j \in 1..Len(sets) : i # j => uniq[i] \cap uniq[j] = {}
    /\ \A k \in UNION Range(sets) :
          /\ Cardinality(Holders(sets, k)) >= 2 =>
                \A i \in 1..Len(sets) : k \notin uniq[i]
          /\ Cardinality(Holders(sets, k)) = 1 =>
                \A i \in 1..Len(sets) : k \in uniq[i] <=> k \in sets[i]
          /\ k \in IterIntersect(sets)
                <=> Cardinality(Holders(sets, k)) = Len(sets)

\* C6: N-way unique-complement of the bookmark keys and of the folder
\* names; where the run also reports the intersection, a key of all files
\* is in it and a key of some but not all files is not.
C6_UniqueComplement ==
    UniqueComputed =>
        /\ Len(unique_items) = Len(all_data)
        /\ UniqueComplement(BSets(all_data),
               [i \in 1..Len(unique_items) |-> unique_items[i].bookmarks])
        /\ UniqueComplement(FSets(all_data),
               [i \in 1..Len(unique_items) |-> unique_items[i].folders])
        /\ script = "multi_regex" =>
              /\ common_bookmarks = IterIntersect(BSets(all_data))
              /\ common_folders = IterIntersect(FSets(all_data))

\* three files: one key in all three (scenario 3), one in exactly two, and
\* the first file alone holding a third
C6_Witness ==
    /\ UniqueComputed
    /\ script = "multi_regex"
    /\ Len(all_data) = 3
    /\ Cardinality(common_bookmarks) = 1
    /\ Cardinality(unique_items[1].bookmarks) = 1
    /\ unique_items[2].bookmarks = {}
    /\ unique_items[3].bookmarks = {}
    /\ \E k \in all_data[2].b_set :
          Cardinality(Holders(BSets(all_data), k)) = 2

(***************************************************************************)
(* Properties of BookmarkParser over whole event sequences.                *)
(***************************************************************************)
\* C11 as claimed: after any sequence of events the emitted bookmarks are at
\* most the StartTag(a) events that an EndTag(a) has followed, the folder
\* counter and the emitted folders are at most the StartTag(h3) events that
\* an EndTag(h3) has followed, and an end tag that no open tag of its name
\* precedes produces no entity and no count.
C11_OnePerPair ==
    /\ [](/\ Len(bookmarks) <= paired.a
          /\ total_folder_counter <= paired.h3
          /\ Cardinality(folders) <= paired.h3)
    /\ [][\A tag \in {"a", "h3"} :
             (IsEndTag(tag) /\ open_tags[tag] = 0) =>
                 /\ bookmarks' = bookmarks
                 /\ folders' = folders
                 /\ total_folder_counter' = total_folder_counter]_vars

\* the part of C11 that holds: bookmarks are at most the closed anchors, and
\* an EndTag(a) that no StartTag(a) precedes emits nothing
AnchorsOnePerPair ==
    /\ [](Len(bookmarks) <= paired.a)
    /\ [][(IsEndTag("a") /\ open_tags.a = 0) => bookmarks' = bookmarks]_vars

(***************************************************************************)
(* The way of one anchor from the file's text to its key, statement by     *)
(* statement, in three scripts: parse_bookmarks and the loop of            *)
(* deduplicate_and_generate_report (deduplicate_bookmarks_健壮版1.py), the  *)
(* loop of parse_bookmarks_file (compare_multi_bookmarks_健壮正则表达式版.py) *)
(* and html.parser with handle_endtag (compare_bookmarks_流式解析.py).       *)
(* applied records the normalisation steps in the order the statements     *)
(* perform them. The titles hold no markup, so re.sub(r'<.*?>', '', title) *)
(* has nothing to remove.                                                  *)
(***************************************************************************)
IsDigit(c) == IsHex(c) /\ HexVal(c) <= 9

\* length of the run of decimal digits s starts with
RECURSIVE DigitRun(_)
DigitRun(s) == IF s # <<>> /\ IsDigit(s[1]) THEN 1 + DigitRun(Tail(s)) ELSE 0

\* int() of a string of decimal digits
RECURSIVE DecVal(_, _)
DecVal(s, acc) ==
    IF s = <<>> THEN acc ELSE DecVal(Tail(s), 10 * acc + HexVal(s[1]))

\* html.unescape on the character references of the inputs, which are
\* decimal: &#N; (the semicolon optional) becomes chr(N), anything else is
\* left as it is
RECURSIVE Unescape(_)
Unescape(s) ==
    IF s = <<>> THEN <<>>
    ELSE IF Len(s) >= 3 /\ s[1] = "&" /\ s[2] = "#"
              /\ DigitRun(SliceFrom(s, 2)) > 0
         THEN LET n    == DigitRun(SliceFrom(s, 2))
                  rest == SliceFrom(s, 2 + n)
              IN  <<ChrOf(DecVal(SubSeq(s, 3, 2 + n), 0))>>
                      \o Unescape(IF rest # <<>> /\ rest[1] = ";"
                                  THEN Tail(rest) ELSE rest)
         ELSE <<s[1]>> \o Unescape(Tail(s))

\* the href values and the anchor texts of the inputs
RawUrlPool ==
    { <<>>,
      S_http \o <<"a", "b">>,
      S_https \o <<"a", "b", "/">>,
      <<"H", "T", "T", "P", ":", "/", "/", "a", "b", "/">>,
      <<"F", "T", "P", ":", "a">>,
      <<"m", ":", "a">>,
      <<"%", "6", "8", "t", "t", "p", ":", "/", "/", "a", "b", "/">>,
      <<"&", "#", "3", "7", ";", "6", "8", "t", "t", "p", ":", "/", "/",
        "a", "b">>,
      <<"%", "2", "6", "#", "3", "7", ";", "6", "8", "t", "t", "p">> }

RawTitlePool ==
    { <<>>, <<"A">>, <<" ", "A", " ">>, <<" ", "&", "#", "3", "7", ";", " ">> }

PipelineScripts == {"deduplicate", "multi_regex_robust", "compare_stream"}

InitPipeline ==
    /\ mode \in Modes
    /\ pc = "n_parse"
    /\ script \in PipelineScripts
    /\ raw_url \in RawUrlPool
    /\ raw_title \in RawTitlePool
    /\ decode_enabled \in BOOLEAN
    /\ filter_enabled \in IF script = "deduplicate" THEN {FALSE} ELSE BOOLEAN
    /\ strict_protocol \in IF script = "deduplicate" THEN BOOLEAN ELSE {FALSE}
    /\ ignore_slash \in IF script = "deduplicate" THEN BOOLEAN ELSE {FALSE}
    /\ normalized_url = <<>>
    /\ clean_title = <<>>
    /\ result = NoResult
    /\ applied = <<>>
    /\ renormalized_url = <<>>
    /\ DedupRunIdle
    /\ ParserRunIdle
    /\ RegexIdle
    /\ CompareIdle
    /\ MultiIdle
    /\ TwoIdle
    /\ FindIdle
    /\ JsonIdle
    /\ ListIdle
    /\ BatchIdle

\* the steps named in steps whose switch is on, in the order of steps
RECURSIVE Enabled(_, _)
Enabled(steps, on) ==
    IF steps = <<>> THEN <<>>
    ELSE (IF Head(steps) \in on THEN <<Head(steps)>> ELSE <<>>)
             \o Enabled(Tail(steps), on)

Dropped == [status |-> "dropped", key |-> <<>>]

Rejected == [status |-> "rejected", key |-> <<>>]

Key(k) == [status |-> "key", key |-> k]

\* percent-decoding before the character references are resolved
DecodeUrl_PercentFirst(u) == Unescape(Unquote(u))

\* deduplicate_bookmarks_健壮版1.py line 35: unquote(html.unescape(raw_url))
DecodeUrl(u) == Unquote(Unescape(u))

\* deduplicate_bookmarks_健壮版1.py lines 30-39, for one match of the pattern
parse_bookmarks ==
    /\ pc = "n_parse"
    /\ script = "deduplicate"
    /\ IF raw_url = <<>>
       THEN /\ result' = Dropped
            /\ pc' = "n_done"
            /\ UNCHANGED <<normalized_url, clean_title, applied>>
       ELSE /\ normalized_url' =
                   IF decode_enabled THEN DecodeUrl(raw_url) ELSE raw_url
            /\ clean_title' =
                   Strip(IF decode_enabled THEN Unescape(raw_title)
                         ELSE raw_title)
            /\ applied' =
                   Enabled(<<"entity_url", "percent", "entity_title", "trim">>,
                           IF decode_enabled
                           THEN {"entity_url", "percent", "entity_title",
                                 "trim"}
                           ELSE {"trim"})
            /\ pc' = "n_key"
            /\ UNCHANGED result
    /\ UNCHANGED <<mode, raw_url, raw_title, renormalized_url, notNormalize>>

\* deduplicate_bookmarks_健壮版1.py lines 75-76, for the parsed (url, title)
normalize_key ==
    /\ pc = "n_key"
    /\ script = "deduplicate"
    /\ normalized_url' =
           normalize_url(normalized_url, strict_protocol, ignore_slash)
    /\ result' = Key(KeyOf(<<normalized_url, clean_title>>))
    /\ applied' =
           applied \o Enabled(<<"protocol", "slash">>,
                              (IF strict_protocol THEN {} ELSE {"protocol"})
                                  \cup (IF ignore_slash THEN {"slash"} ELSE {}))
    /\ pc' = "n_done"
    /\ UNCHANGED <<mode, raw_url, raw_title, clean_title, renormalized_url,
                   notNormalize>>

\* compare_multi_bookmarks_健壮正则表达式版.py lines 39-60, for one match of
\* the pattern; lines 46-53 are lines 59-67 of compare_bookmarks_流式解析.py
parse_bookmarks_file_robust ==
    /\ pc = "n_parse"
    /\ script = "multi_regex_robust"
    /\ IF raw_url = <<>>
       THEN /\ result' = Dropped
            /\ UNCHANGED <<normalized_url, clean_title, applied>>
       ELSE LET unescaped_url   == Unescape(raw_url)
                unescaped_title == Unescape(raw_title)
                should_add      == ShouldAdd(unescaped_url)
                with_title      == should_add /\ mode = "url-title"
            IN  /\ normalized_url' = NormalizedUrl(unescaped_url)
                /\ clean_title' = IF with_title THEN Strip(unescaped_title)
                                  ELSE clean_title
                /\ result' =
                       IF ~should_add THEN Rejected
                       ELSE IF mode = "url"
                       THEN Key(NormalizedUrl(unescaped_url))
                       ELSE Key(<<NormalizedUrl(unescaped_url),
                                  Strip(unescaped_title)>>)
                /\ applied' =
                       Enabled(<<"entity_url", "entity_title", "percent",
                                 "filter", "trim">>,
                               {"entity_url", "entity_title"}
                                   \cup (IF decode_enabled THEN {"percent"}
                                         ELSE {})
                                   \cup (IF filter_enabled THEN {"filter"}
                                         ELSE {})
                                   \cup (IF with_title THEN {"trim"} ELSE {}))
    /\ pc' = "n_done"
    /\ UNCHANGED <<mode, raw_url, raw_title, renormalized_url, notNormalize>>

\* compare_bookmarks_流式解析.py: html.parser resolves the character
\* references of the attribute value and of the text before it calls the
\* handlers (line 58), then handle_endtag lines 56-75
feed_anchor ==
    /\ pc = "n_parse"
    /\ script = "compare_stream"
    /\ LET url        == Unescape(raw_url)
           title      == Unescape(raw_title)
           should_add == ShouldAdd(url)
       IN  IF url = <<>>
           THEN /\ result' = Dropped
                /\ applied' = <<"entity_url", "entity_title">>
                /\ UNCHANGED <<normalized_url, clean_title>>
           ELSE /\ normalized_url' = NormalizedUrl(url)
                /\ clean_title' = IF should_add THEN Strip(title)
                                  ELSE clean_title
                /\ result' = IF should_add THEN Key(EntryFor(url, title))
                             ELSE Rejected
                /\ applied' =
                       Enabled(<<"entity_url", "entity_title", "percent",
                                 "filter", "trim">>,
                               {"entity_url", "entity_title"}
                                   \cup (IF decode_enabled THEN {"percent"}
                                         ELSE {})
                                   \cup (IF filter_enabled THEN {"filter"}
                                         ELSE {})
                                   \cup (IF should_add THEN {"trim"} ELSE {}))
    /\ pc' = "n_done"
    /\ UNCHANGED <<mode, raw_url, raw_title, renormalized_url, notNormalize>>

NextPipeline ==
    \/ parse_bookmarks
    \/ normalize_key
    \/ parse_bookmarks_file_robust
    \/ feed_anchor

SpecPipeline == InitPipeline /\ [][NextPipeline]_vars

(***************************************************************************)
(* Properties of the normalisation order.                                  *)
(***************************************************************************)
\* the place of a step in the claimed order
Rank(step) ==
    CASE step \in {"entity_url", "entity_title"} -> 1
      [] step = "percent" -> 2
      [] step = "filter" -> 3
      [] step = "protocol" -> 4
      [] step = "slash" -> 5
      [] step = "trim" -> 6

\* the steps of the sequence are in the claimed order
InOrder(steps) ==
    \A i, j \in 1..Len(steps) : i < j => Rank(steps[i]) < Rank(steps[j])

UrlSteps == {"entity_url", "percent", "filter", "protocol", "slash"}

TitleSteps == {"entity_title", "trim"}

\* the script resolves character references for this run
EntityOn == script = "deduplicate" => decode_enabled

\* what the claimed order computes from the raw url and the raw title
ExpectedResult ==
    LET e1 == IF EntityOn THEN Unescape(raw_url) ELSE raw_url
        e2 == IF decode_enabled THEN Unquote(e1) ELSE e1
        e4 == IF script = "deduplicate" /\ ~strict_protocol
              THEN normalize_url(e2, FALSE, FALSE) ELSE e2
        e5 == IF script = "deduplicate" /\ ignore_slash
              THEN normalize_url(e4, TRUE, TRUE) ELSE e4
        t  == Strip(IF EntityOn THEN Unescape(raw_title) ELSE raw_title)
    IN  IF raw_url = <<>> THEN Dropped
        ELSE IF filter_enabled /\ ~PassesFilter(e2) THEN Rejected
        ELSE IF mode = "url" THEN Key(e5)
        ELSE Key(<<e5, t>>)

\* C12 as claimed: the enabled steps are applied in the order entity
\* decoding, percent-decoding, protocol filtering, protocol collapsing,
\* trailing-slash collapsing, title trimming; no script applies two enabled
\* steps in the reverse relative order.
C12_Original ==
    pc = "n_done" =>
        \A i, j \in 1..Len(applied) :
            i < j => Rank(applied[i]) <= Rank(applied[j])

\* C12 as amended: the enabled steps on the url are applied in the order
\* entity decoding, percent-decoding, protocol filtering, protocol
\* collapsing, trailing-slash collapsing; the title is entity-decoded before
\* it is trimmed; a script that filters trims the title after the filter;
\* and the result is the one the claimed order computes: the filter tests
\* the decoded url, the slash rule works on the protocol-collapsed url. The
\* title's steps are not after all the url's steps.
C12_StepOrder ==
    pc = "n_done" =>
        /\ InOrder(Enabled(applied, UrlSteps))
        /\ InOrder(Enabled(applied, TitleSteps))
        /\ InOrder(Enabled(applied, {"filter", "trim"}))
        /\ result = ExpectedResult

\* the deduplication script's run with every switch on, on a url that needs
\* every step: the title is trimmed before the protocol is collapsed
C12_Witness ==
    /\ pc = "n_done"
    /\ script = "deduplicate"
    /\ mode = "url-title"
    /\ raw_url = <<"%", "6", "8", "t", "t", "p", ":", "/", "/", "a", "b", "/">>
    /\ raw_title = <<" ", "&", "#", "3", "7", ";", " ">>
    /\ applied = <<"entity_url", "percent", "entity_title", "trim",
                   "protocol", "slash">>
    /\ result = Key(<< <<"a", "b">>, <<"%">> >>)

(***************************************************************************)
(* Properties of the protocol filter and of the built collection.          *)
(***************************************************************************)
FilterPrefixes ==
    { <<"h", "t", "t", "p">>, <<"h", "t", "t", "p", "s">>, <<"f", "t", "p">> }

\* the url starts, letter case apart, with one of the literal prefixes
HasFilterPrefix(u) == \E p \in FilterPrefixes : StartsWith(Lower(u), p)

\* the url of the closing anchor, percent-decoded when decoding is on
DecodedUrl == IF decode_enabled THEN Unquote(current_url) ELSE current_url

\* C13: protocol filtering. The EndTag(a) of an anchor with a non-empty url
\* rejects it exactly when filtering is enabled and the decoded url starts,
\* case-insensitively, with none of http, https, ftp, and appends its key
\* otherwise (always, when filtering is disabled); the key set and the total
\* bookmark count of the parsed file are made of the appended keys only, so a
\* rejected bookmark is in neither.
C13_ProtocolFilter ==
    /\ [][(IsEndTag("a") /\ current_url # <<>>) =>
             IF filter_enabled /\ ~HasFilterPrefix(DecodedUrl)
             THEN bookmarks' = bookmarks
             ELSE bookmarks' =
                      Append(bookmarks,
                             IF mode = "url" THEN DecodedUrl
                             ELSE <<DecodedUrl, Strip(current_title)>>)]_vars
    /\ [](pc = "parsed" =>
             /\ b_set = Range(bookmarks)
             /\ b_total = Len(bookmarks)
             /\ filter_enabled =>
                   \A k \in b_set : HasFilterPrefix(UrlOfKey(k)))

\* scenario 4: a parsed file of two closed anchors, filtering enabled, the
\* second one a mailto-like link: one key, a total of one
C13_Witness ==
    /\ pc = "parsed"
    /\ filter_enabled
    /\ paired.a = 2
    /\ ev.kind = "end"
    /\ ev.tag = "a"
    /\ ev.url = <<"m", ":", "a">>
    /\ Cardinality(b_set) = 1
    /\ b_total = 1

(***************************************************************************)
(* normalize_url of deduplicate_bookmarks_健壮版1.py as a function: applied *)
(* to a url, and applied to its own result.                                *)
(***************************************************************************)
\* http:// and https:// in several letter cases
SchemeForms ==
    { S_http, S_https,
      <<"H", "T", "T", "P", ":", "/", "/">>,
      <<"H", "t", "t", "p", "s", ":", "/", "/">> }

\* the urls normalize_url is applied to: no scheme, one scheme or a scheme
\* twice; a host; a tail of slashes and path characters
UrlPool ==
    { s \o h \o t :
        s \in SchemeForms \cup {<<>>, S_http \o S_http},
        h \in {<<"a">>, <<"a", "b">>},
        t \in SeqsUpTo({"/", "c"}, MaxTail) }

InitNormalizeUrl ==
    /\ mode = "url"
    /\ pc = "nu_call"
    /\ script = "normalize_url"
    /\ raw_url \in UrlPool
    /\ strict_protocol \in BOOLEAN
    /\ ignore_slash \in BOOLEAN
    /\ filter_enabled = FALSE
    /\ decode_enabled = FALSE
    /\ raw_title = <<>>
    /\ normalized_url = <<>>
    /\ clean_title = <<>>
    /\ result = NoResult
    /\ applied = <<>>
    /\ renormalized_url = <<>>
    /\ DedupRunIdle
    /\ ParserRunIdle
    /\ RegexIdle
    /\ CompareIdle
    /\ MultiIdle
    /\ TwoIdle
    /\ FindIdle
    /\ JsonIdle
    /\ ListIdle
    /\ BatchIdle

\* normalized_url_key = normalize_url(url, strict_protocol, ignore_slash)
NormalizeOnce ==
    /\ pc = "nu_call"
    /\ normalized_url' = normalize_url(raw_url, strict_protocol, ignore_slash)
    /\ pc' = "nu_once"
    /\ UNCHANGED <<mode, raw_url, raw_title, clean_title, result, applied,
                   renormalized_url, notNormalize>>

\* normalize_url applied to the key it has returned
NormalizeAgain ==
    /\ pc = "nu_once"
    /\ renormalized_url' =
           normalize_url(normalized_url, strict_protocol, ignore_slash)
    /\ pc' = "nu_twice"
    /\ UNCHANGED <<mode, raw_url, raw_title, normalized_url, clean_title,
                   result, applied, notNormalize>>

NextNormalizeUrl == NormalizeOnce \/ NormalizeAgain

SpecNormalizeUrl == InitNormalizeUrl /\ [][NextNormalizeUrl]_vars

(***************************************************************************)
(* Properties of normalize_url.                                            *)
(***************************************************************************)
Normalized == pc \in {"nu_once", "nu_twice"}

\* the urls that differ from u only in the scheme being http or https, in
\* any of the letter cases of SchemeForms
SchemeVariants(u) ==
    { s2 \o SliceFrom(u, Len(s1)) :
        s1 \in {s \in SchemeForms : StartsWith(u, s)}, s2 \in SchemeForms }

\* C14 as claimed: with protocol collapsing enabled (strict_protocol off) a
\* leading http:// or https:// is stripped whatever its letter case, so all
\* urls that differ only in the scheme, http or https in any letter case,
\* get the key of the url.
C14_CaseInsensitive ==
    (Normalized /\ ~strict_protocol) =>
        \A v \in SchemeVariants(raw_url) :
            normalize_url(v, strict_protocol, ignore_slash) = normalized_url

EndsWithSlash(u) == Len(u) > 0 /\ u[Len(u)] = "/"

\* the url after the protocol step
ProtocolCollapsed ==
    IF strict_protocol THEN raw_url ELSE StripScheme(raw_url)

\* a '/' exists in the portion of the url after its first '://'
HasPathSlash(u) ==
    /\ Find(u, S_sep) >= 0
    /\ "/" \in Range(SliceFrom(u, Find(u, S_sep) + 3))

\* C15 as claimed: with trailing-slash collapsing enabled exactly one
\* trailing '/' is stripped, and only if a '/' exists in the portion after
\* the first '://'; a bare domain is left untouched and a url that ends in
\* several slashes loses only one.
C15_OneSlash ==
    (Normalized /\ ignore_slash) =>
        /\ normalized_url \in
               {ProtocolCollapsed, RStripSlash_One(ProtocolCollapsed)}
        /\ normalized_url # ProtocolCollapsed => HasPathSlash(raw_url)
        /\ HasPathSlash(raw_url) =>
               normalized_url = RStripSlash_One(ProtocolCollapsed)

\* C16 as claimed: for every url and every setting of the protocol option,
\* normalize_url with ignore_slash enabled returns its own output unchanged.
C16_Original ==
    (pc = "nu_twice" /\ ignore_slash) => renormalized_url = normalized_url

\* C16 as amended: with ignore_slash enabled normalize_url returns its own
\* output unchanged for every url when strict_protocol is on, and when it is
\* off for every url whose output does not itself start with http:// or
\* https://; the trailing-slash step alone leaves every output unchanged.
C16_SlashIdempotent ==
    (pc = "nu_twice" /\ ignore_slash) =>
        /\ (strict_protocol \/ StripScheme(normalized_url) = normalized_url)
               => renormalized_url = normalized_url
        /\ normalize_url(normalized_url, TRUE, TRUE) = normalized_url

\* a url that ends in two slashes has lost them, and the second application
\* has changed nothing
C16_Witness ==
    /\ pc = "nu_twice"
    /\ ignore_slash
    /\ ~strict_protocol
    /\ EndsWithSlash(RStripSlash_One(raw_url))
    /\ ~EndsWithSlash(normalized_url)
    /\ renormalized_url = normalized_url

(***************************************************************************)
(* Scenario 1: the deduplication of a file of two anchors, the same scheme *)
(* and host with and without one trailing slash, in url mode with          *)
(* ignore_slash on.                                                        *)
(***************************************************************************)
HostPool == SeqsUpTo({"a", "b"}, MaxHost) \ {<<>>}

\* the two parsed anchors, in either order
ScenarioPairs ==
    { IF slash_first THEN << <<s \o h \o <<"/">>, t1>>, <<s \o h, t2>> >>
      ELSE << <<s \o h, t1>>, <<s \o h \o <<"/">>, t2>> >> :
        s \in {S_http, S_https}, h \in HostPool,
        t1 \in {<<"A">>, <<"B">>}, t2 \in {<<"A">>, <<"B">>},
        slash_first \in BOOLEAN }

InitScenario1 ==
    /\ mode = "url"
    /\ pc = "dedup_loop"
    /\ script = "deduplicate"
    /\ all_bookmarks \in ScenarioPairs
    /\ strict_protocol \in BOOLEAN
    /\ ignore_slash = TRUE
    /\ idx = 1
    /\ unique_bookmarks = <<>>
    /\ processed_items = <<>>
    /\ duplicate_groups = <<>>
    /\ sorted_groups = <<>>
    /\ total_bookmarks_count = Len(all_bookmarks)
    /\ remaining_bookmarks_count = 0
    /\ total_removed_items = 0
    /\ ParserIdle
    /\ RegexIdle
    /\ CompareIdle
    /\ MultiIdle
    /\ NormalizeIdle
    /\ TwoIdle
    /\ FindIdle
    /\ JsonIdle
    /\ ListIdle
    /\ BatchIdle

SpecScenario1 == InitScenario1 /\ [][NextDedup]_vars

\* C17 as claimed: the two occurrences map to one key, and the finished
\* deduplication has one kept entry, the first occurrence with its raw url,
\* and one duplicate group with exactly one removed entry, the second
\* occurrence; with strict_protocol on or off.
C17_Scenario1 ==
    pc = "dedup_done" =>
        /\ KeyOf(all_bookmarks[1]) = KeyOf(all_bookmarks[2])
        /\ unique_bookmarks = <<all_bookmarks[1]>>
        /\ remaining_bookmarks_count = 1
        /\ Len(sorted_groups) = 1
        /\ sorted_groups[1].original = all_bookmarks[1]
        /\ sorted_groups[1].removed = <<all_bookmarks[2]>>
        /\ total_removed_items = 1

\* the same with hosts of one character left out when the protocol is
\* collapsed: what the code does satisfy
Scenario1_LongHost ==
    (\/ strict_protocol
     \/ \A i \in 1..2 : Len(RStripSlash(StripScheme(all_bookmarks[i][1]))) >= 2)
        => C17_Scenario1

\* no key occurs twice in the list
NoRepeat(list) == \A i, j \in 1..Len(list) : list[i] = list[j] => i = j

\* what C18 says of bookmarks: every accepting EndTag(a) lengthens the list
\* of keys, whether the key is new or not, and a key that is in the list
\* already leaves the set of keys as it is; in the parsed file the total is
\* at least the size of the key set, and equal to it exactly when no key
\* repeats. The folder counter is never less than the size of the folder set.
CollectionCounts ==
    /\ [][(IsEndTag("a") /\ current_url # <<>> /\ ShouldAdd(current_url)) =>
             /\ Len(bookmarks') = Len(bookmarks) + 1
             /\ bookmarks'[Len(bookmarks')] \in Range(bookmarks)
                   => Range(bookmarks') = Range(bookmarks)]_vars
    /\ [](total_folder_counter >= Cardinality(folders))
    /\ [](pc = "parsed" =>
             /\ b_total >= Cardinality(b_set)
             /\ f_total >= Cardinality(f_set)
             /\ b_total = Cardinality(b_set) <=> NoRepeat(bookmarks))

\* C18 as claimed: the above, and the total folder count equals the size of
\* the folder-name set exactly when no folder name repeats, that is every
\* EndTag(h3) whose name is not in the set yet makes the set one larger.
C18_Original ==
    /\ CollectionCounts
    /\ [][IsEndTag("h3") =>
             (Cardinality(folders') = Cardinality(folders) + 1
                  <=> Strip(current_folder) \notin folders)]_vars

\* C18 as amended: the same, except that in the parser of
\* compare_multi_bookmarks_流式解析.py a heading whose trimmed text is empty
\* is counted and not added, so that there the total folder count equals
\* the size of the folder-name set exactly when no name repeats and no
\* heading text is empty.
C18_CollectionBuilding ==
    /\ CollectionCounts
    /\ [][IsEndTag("h3") =>
             (Cardinality(folders') = Cardinality(folders) + 1
                  <=> /\ Strip(current_folder) \notin folders
                      /\ script = "multi_stream" => Strip(current_folder) # <<>>)
         ]_vars

\* compare_multi's parsed file with one key that occurs twice and one
\* heading without text: two bookmarks for one key, one folder for none
C18_Witness ==
    /\ pc = "parsed"
    /\ script = "multi_stream"
    /\ b_total = 2
    /\ Cardinality(b_set) = 1
    /\ f_total = 1
    /\ f_set = {}

(***************************************************************************)
(* Properties of the error handling.                                       *)
(***************************************************************************)
\* C19 as claimed, for the multi-file analyses: if any input file is missing
\* or unreadable the operation aborts and no report, not even one over the
\* remaining files, is produced.
C19_AbortOnUnreadable ==
    (\E i \in 1..Len(files) : ~files[i].readable) => pc # "multi_done"

\* compare_multi_bookmarks.py does abort: it reports only when every file
\* has been parsed
RegexAbortsOnUnreadable ==
    (script = "multi_regex" /\ pc = "multi_done") =>
        \A i \in 1..Len(files) : files[i].readable

\* the EndTag(a) step appends one bookmark with the url of the closing anchor
ExtractsAnchor ==
    /\ Len(bookmarks') = Len(bookmarks) + 1
    /\ SubSeq(bookmarks', 1, Len(bookmarks)) = bookmarks
    /\ UrlOfKey(bookmarks'[Len(bookmarks')]) = NormalizedUrl(current_url)

\* C20 as claimed: an anchor with a missing or empty href or with an empty
\* title is dropped, no bookmark is emitted for it, and an anchor with a url
\* that the filter accepts and with a title is extracted whatever malformed
\* anchors, closed or left open, come before it.
C20_MalformedDropped ==
    [][IsEndTag("a") =>
          /\ (current_url = <<>> \/ Strip(own_text) = <<>>)
                => bookmarks' = bookmarks
          /\ (current_url # <<>> /\ Strip(own_text) # <<>>
                  /\ ShouldAdd(current_url))
                => ExtractsAnchor]_vars

\* the part of C20 that holds: an anchor without href or with an empty href
\* is dropped, and every anchor with a url that the filter accepts is
\* extracted whatever comes before it
HrefRecovery ==
    [][IsEndTag("a") =>
          /\ current_url = <<>> => bookmarks' = bookmarks
          /\ (current_url # <<>> /\ ShouldAdd(current_url))
                => ExtractsAnchor]_vars

(***************************************************************************)
(* Two BookmarkParser instances of one run: generate_report builds one     *)
(* parser per file (parse_bookmarks_file_fast, line 105). The callbacks    *)
(* are written here on the attributes of one instance, and the events of   *)
(* the two files reach the two instances in any order.                     *)
(***************************************************************************)
\* lines 22-34: the attributes __init__ gives an instance
NewParser ==
    [bookmarks |-> <<>>, folders |-> {}, total_folder_counter |-> 0,
     is_in_a_tag |-> FALSE, is_in_h3_tag |-> FALSE, current_url |-> <<>>,
     current_title |-> <<>>, current_folder |-> <<>>]

StartEvent(tag, attrs) == [kind |-> "start", tag |-> tag, arg |-> attrs]

DataEvent(data) == [kind |-> "data", tag |-> "", arg |-> data]

EndEvent(tag) == [kind |-> "end", tag |-> tag, arg |-> <<>>]

\* the events html.parser reports for the text of the files
EventPool ==
    { StartEvent("a", << <<"href", S_http \o <<"a", "b">>>> >>),
      StartEvent("h3", <<>>),
      DataEvent(<<"A">>),
      EndEvent("a"),
      EndEvent("h3") }

\* lines 36-44 on the instance p
starttag_on(p, tag, attrs) ==
    IF tag = "a"
    THEN [p EXCEPT !.is_in_a_tag = TRUE, !.current_url = HrefOf(attrs)]
    ELSE IF tag = "h3" THEN [p EXCEPT !.is_in_h3_tag = TRUE]
    ELSE p

\* lines 46-51 on the instance p
data_on(p, data) ==
    IF p.is_in_a_tag THEN [p EXCEPT !.current_title = @ \o data]
    ELSE IF p.is_in_h3_tag THEN [p EXCEPT !.current_folder = @ \o data]
    ELSE p

\* lines 53-87 on the instance p
endtag_on(p, tag) ==
    IF tag = "a"
    THEN [p EXCEPT
            !.bookmarks =
                IF p.current_url # <<>> /\ ShouldAdd(p.current_url)
                THEN Append(@, EntryFor(p.current_url, p.current_title))
                ELSE @,
            !.is_in_a_tag = FALSE,
            !.current_url = <<>>,
            !.current_title = <<>>]
    ELSE IF tag = "h3"
    THEN [p EXCEPT
            !.total_folder_counter = @ + FolderCount(Strip(p.current_folder)),
            !.folders =
                IF script = "compare_stream" \/ Strip(p.current_folder) # <<>>
                THEN @ \cup {Strip(p.current_folder)}
                ELSE @,
            !.is_in_h3_tag = FALSE,
            !.current_folder = <<>>]
    ELSE p

\* HTMLParser.feed calling the callback of one event
Callback(p, e) ==
    IF e.kind = "start" THEN starttag_on(p, e.tag, e.arg)
    ELSE IF e.kind = "data" THEN data_on(p, e.arg)
    ELSE endtag_on(p, e.tag)

\* parser.feed(content) on a fresh instance: the file parsed alone
RECURSIVE FeedAll(_)
FeedAll(events) ==
    IF events = <<>> THEN NewParser
    ELSE Callback(FeedAll(SubSeq(events, 1, Len(events) - 1)),
                  events[Len(events)])

\* bookmarks and folders as attributes of the class, one list and one set
\* for all instances
Store_ClassAttributes(ps, i, p) ==
    [j \in 1..Len(ps) |->
        IF j = i THEN p
        ELSE [ps[j] EXCEPT !.bookmarks = p.bookmarks, !.folders = p.folders]]

\* every attribute is assigned on self: a callback changes its own instance
Store(ps, i, p) == [ps EXCEPT ![i] = p]

\* lines 130-133 of generate_report: one parser per file, same options
InitTwo ==
    /\ mode \in Modes
    /\ pc = "two_feed"
    /\ script \in Scripts
    /\ filter_enabled \in BOOLEAN
    /\ decode_enabled \in BOOLEAN
    /\ parsers = <<NewParser, NewParser>>
    /\ inputs = << <<>>, <<>> >>
    /\ last_fed = 0
    /\ interleaved = FALSE
    /\ DedupIdle
    /\ ParserRunIdle
    /\ RegexIdle
    /\ CompareIdle
    /\ MultiIdle
    /\ NormalizeIdle
    /\ FindIdle
    /\ JsonIdle
    /\ ListIdle
    /\ BatchIdle

\* the next event of file i reaches parser i
feed_interleaved(i, e) ==
    /\ pc = "two_feed"
    /\ Len(inputs[1]) + Len(inputs[2]) < MaxInterleaved
    /\ parsers' = Store(parsers, i, Callback(parsers[i], e))
    /\ inputs' = [inputs EXCEPT ![i] = Append(@, e)]
    /\ last_fed' = i
    /\ interleaved' = (interleaved \/ (last_fed # i /\ inputs[i] # <<>>))
    /\ UNCHANGED <<mode, pc, notTwo>>

NextTwo == \E i \in 1..2, e \in EventPool : feed_interleaved(i, e)

SpecTwo == InitTwo /\ [][NextTwo]_vars

\* what parse_bookmarks_file_fast takes from the instance, lines 109-112
Collection(p) == <<p.bookmarks, p.folders, p.total_folder_counter>>

\* C21: however the events of the two files are interleaved across the two
\* parser instances, the bookmark list, the folder set and the folder
\* counter of each instance are those of parsing its file alone.
C21_NoSharedState ==
    \A i \in DOMAIN parsers :
        Collection(parsers[i]) = Collection(FeedAll(inputs[i]))

\* C21 witness: parser 1 was fed again after parser 2 had been fed in
\* between, parser 1 has collected a bookmark and parser 2 a folder.
C21_Witness ==
    /\ pc = "two_feed"
    /\ interleaved
    /\ parsers[1].bookmarks # <<>>
    /\ parsers[2].total_folder_counter > 0
    /\ parsers[2].bookmarks = <<>>

(***************************************************************************)
(* find_and_process_duplicates of find_duplicate_bookmarks.py.             *)
(* all_bookmarks is what pattern.findall returns (line 26); output_file    *)
(* and report_file tell whether -o and -r were given.                      *)
(***************************************************************************)
\* lines 37-45: url_counts, a dict in insertion order
RECURSIVE CountUrls(_)
CountUrls(bs) ==
    IF bs = <<>> THEN <<>>
    ELSE LET d == CountUrls(SubSeq(bs, 1, Len(bs) - 1))
             url == bs[Len(bs)][1]
             hits == {i \in 1..Len(d) : d[i].url = url}
         IN  IF hits = {} THEN Append(d, [url |-> url, count |-> 1])
             ELSE [d EXCEPT ![CHOOSE i \in hits : TRUE].count = @ + 1]

\* lines 40-49: the first (url, clean_name) of every url, when -o is given
RECURSIVE FirstPerUrl(_)
FirstPerUrl(bs) ==
    IF bs = <<>> THEN <<>>
    ELSE LET front == SubSeq(bs, 1, Len(bs) - 1)
             item == bs[Len(bs)]
         IN  IF \E i \in 1..Len(front) : front[i][1] = item[1]
             THEN FirstPerUrl(front)
             ELSE Append(FirstPerUrl(front), <<item[1], Strip(item[2])>>)

\* line 51: the urls counted more than once
RECURSIVE MoreThanOnce(_)
MoreThanOnce(d) ==
    IF d = <<>> THEN <<>>
    ELSE IF d[1].count > 1 THEN <<d[1]>> \o MoreThanOnce(Tail(d))
    ELSE MoreThanOnce(Tail(d))

\* state after line 30: the file was read and matched
InitFind ==
    /\ mode = "url"
    /\ pc = "find_parsed"
    /\ script = "find_duplicate"
    /\ all_bookmarks \in SeqsUpTo(DedupPool, MaxBookmarks)
    /\ total_bookmarks_count = Len(all_bookmarks)
    /\ output_file \in BOOLEAN
    /\ report_file \in BOOLEAN
    /\ url_counts = <<>>
    /\ unique_bookmarks_to_save = <<>>
    /\ duplicates = <<>>
    /\ report = "none"
    /\ clean_saved = FALSE
    /\ strict_protocol = FALSE
    /\ ignore_slash = FALSE
    /\ idx = 0
    /\ unique_bookmarks = <<>>
    /\ processed_items = <<>>
    /\ duplicate_groups = <<>>
    /\ sorted_groups = <<>>
    /\ remaining_bookmarks_count = 0
    /\ total_removed_items = 0
    /\ ParserIdle
    /\ RegexIdle
    /\ CompareIdle
    /\ MultiIdle
    /\ NormalizeIdle
    /\ TwoIdle
    /\ JsonIdle
    /\ ListIdle
    /\ BatchIdle

\* lines 32-34: nothing matched, the function returns
find_nothing ==
    /\ pc = "find_parsed"
    /\ all_bookmarks = <<>>
    /\ pc' = "find_returned"
    /\ UNCHANGED <<mode, notFind, findVars>>

\* lines 36-100: the counts, the report (to the file of -r, or else to the
\* screen) and the cleaned file of -o
find_report ==
    /\ pc = "find_parsed"
    /\ all_bookmarks # <<>>
    /\ url_counts' = CountUrls(all_bookmarks)
    /\ unique_bookmarks_to_save' =
          IF output_file THEN FirstPerUrl(all_bookmarks) ELSE <<>>
    /\ duplicates' = MoreThanOnce(CountUrls(all_bookmarks))
    /\ report' = IF report_file THEN "file" ELSE "screen"
    /\ clean_saved' = output_file
    /\ pc' = "find_returned"
    /\ UNCHANGED <<mode, notFind, output_file, report_file>>

NextFind == find_nothing \/ find_report

SpecFind == InitFind /\ [][NextFind]_vars

\* C22: a readable file without bookmarks is not an error: the run ends
\* normally with a report whose result sets are empty. Here for
\* find_duplicate_bookmarks.py: a report was produced, with no duplicate.
C22_EmptyInputReport ==
    (pc = "find_returned" /\ all_bookmarks = <<>>) =>
        /\ report # "none"
        /\ duplicates = <<>>

\* with at least one bookmark in the file the report is always produced
FindReportsNonEmpty ==
    (pc = "find_returned" /\ all_bookmarks # <<>>) => report # "none"

\* deduplicate_bookmarks_健壮版1.py on a file without bookmarks: the report
\* is written, with nothing kept and no group
DedupReportsEmpty ==
    (pc = "dedup_done" /\ all_bookmarks = <<>>) =>
        /\ unique_bookmarks = <<>>
        /\ sorted_groups = <<>>
        /\ remaining_bookmarks_count = 0
        /\ total_removed_items = 0

(***************************************************************************)
(* The JSON converters. roots is the dict data['roots'] as the sequence of *)
(* its values, in the order of the file; a node is a dict with its 'type'  *)
(* and the list of its 'children' (empty when the key is absent). A line   *)
(* written to the HTML file is told by the tag of its entry and by the     *)
(* path of the node it was written for: the position of the root, then     *)
(* the position of each child on the way down. The <DL><p> and </DL><p>    *)
(* lines around the children of a folder are not kept.                     *)
(***************************************************************************)
\* node.get('type'): 'url', 'folder', or anything else (a missing key too)
NodeTypes == {"url", "folder", "other"}

\* the nodes with n nodes in all, and the lists of nodes with n in all
RECURSIVE TreesOf(_)
RECURSIVE ForestsOf(_)
TreesOf(n) ==
    {[type |-> t, children |-> f] : t \in NodeTypes, f \in ForestsOf(n - 1)}

ForestsOf(n) ==
    IF n = 0 THEN {<<>>}
    ELSE UNION {{<<t>> \o f : t \in TreesOf(k), f \in ForestsOf(n - k)} :
                    k \in 1..n}

\* the branch of process_node_recursive that loops over the children,
\* taken for every node that has children
Visits_WithChildren(node) == node.children # <<>>

\* lines 56-63: only the folder branch loops over node.get('children', [])
Visits(node) == node.type = "folder"

\* lines 59 and 69: the entry written for the node itself, if any
EntryLine(node, path) ==
    IF node.type = "folder" THEN <<[kind |-> "H3", path |-> path]>>
    ELSE IF node.type = "url" THEN <<[kind |-> "A", path |-> path]>>
    ELSE <<>>

\* lines 49-69 (and lines 45-65 of 书签json转换书签html.py)
RECURSIVE process_node_recursive(_, _)
RECURSIVE process_children(_, _, _)
process_node_recursive(node, path) ==
    EntryLine(node, path)
        \o (IF Visits(node) THEN process_children(node.children, path, 1)
            ELSE <<>>)

\* lines 61-62: the loop over the children, from the i-th on
process_children(children, path, i) ==
    IF i > Len(children) THEN <<>>
    ELSE process_node_recursive(children[i], Append(path, i))
             \o process_children(children, path, i + 1)

\* lines 7-21
RECURSIVE count_bookmarks_recursive(_)
RECURSIVE count_children(_, _)
count_bookmarks_recursive(node) ==
    (IF node.type = "url" THEN 1 ELSE 0) + count_children(node.children, 1)

\* lines 18-19: the loop over the children, from the i-th on
count_children(children, i) ==
    IF i > Len(children) THEN 0
    ELSE count_bookmarks_recursive(children[i])
             + count_children(children, i + 1)

JsonScripts == {"batch_json", "single_json"}

\* json.load has returned
InitJson ==
    /\ mode = "url"
    /\ pc = "json_loaded"
    /\ script \in JsonScripts
    /\ roots \in UNION {ForestsOf(n) : n \in 0..MaxNodes}
    /\ bookmark_count = 0
    /\ written = <<>>
    /\ DedupIdle
    /\ ParserIdle
    /\ RegexIdle
    /\ CompareIdle
    /\ MultiIdle
    /\ NormalizeIdle
    /\ TwoIdle
    /\ FindIdle
    /\ ListIdle
    /\ BatchIdle

\* batch_convert lines 100-103 of 批量书签json转换书签html.py
count_roots ==
    /\ pc = "json_loaded"
    /\ script = "batch_json"
    /\ bookmark_count' = count_children(roots, 1)
    /\ pc' = "json_counted"
    /\ UNCHANGED <<mode, notJson, roots, written>>

\* lines 39-41 of write_html_from_data, lines 33-35 of convert_single_file
write_html_from_data ==
    /\ pc = IF script = "batch_json" THEN "json_counted" ELSE "json_loaded"
    /\ written' = process_children(roots, <<>>, 1)
    /\ pc' = "json_written"
    /\ UNCHANGED <<mode, notJson, roots, bookmark_count>>

NextJson == count_roots \/ write_html_from_data

SpecJson == InitJson /\ [][NextJson]_vars

\* the paths of all nodes below the list of nodes at prefix
RECURSIVE PathsUnder(_, _)
PathsUnder(children, prefix) ==
    UNION {{Append(prefix, i)}
               \cup PathsUnder(children[i].children, Append(prefix, i)) :
           i \in 1..Len(children)}

RECURSIVE NodeAt(_, _)
NodeAt(children, path) ==
    IF Len(path) = 1 THEN children[path[1]]
    ELSE NodeAt(children[path[1]].children, Tail(path))

\* every node above the node at path is a folder
UnderFolders(path) ==
    \A k \in 1..(Len(path) - 1) :
        NodeAt(roots, SubSeq(path, 1, k)).type = "folder"

\* depth-first pre-order: a node before its descendants, and the subtree of
\* a child before the subtree of the next child
RECURSIVE PreOrderLess(_, _)
PreOrderLess(p, q) ==
    IF p = <<>> THEN q # <<>>
    ELSE IF q = <<>> THEN FALSE
    ELSE IF p[1] # q[1] THEN p[1] < q[1]
    ELSE PreOrderLess(Tail(p), Tail(q))

LinesFor(path) == {i \in 1..Len(written) : written[i].path = path}

\* C23: in the written file every url node reached through folders only has
\* exactly one A entry, every folder node reached through folders only has
\* exactly one H3 entry, any other node and every node below a node that is
\* not a folder has no entry, and the entries are in depth-first pre-order.
C23_TreeWalk ==
    pc = "json_written" =>
        /\ \A i \in 1..Len(written) : written[i].path \in PathsUnder(roots, <<>>)
        /\ \A path \in PathsUnder(roots, <<>>) :
              LET node == NodeAt(roots, path)
              IN  IF UnderFolders(path) /\ node.type \in {"url", "folder"}
                  THEN /\ Cardinality(LinesFor(path)) = 1
                       /\ \A i \in LinesFor(path) :
                             written[i].kind =
                                 IF node.type = "url" THEN "A" ELSE "H3"
                  ELSE LinesFor(path) = {}
        /\ \A i, j \in 1..Len(written) :
              i < j => PreOrderLess(written[i].path, written[j].path)

\* C23 witness: a folder holding a url, which was written, and a node that
\* is neither url nor folder, whose url child was not written.
C23_Witness ==
    /\ pc = "json_written"
    /\ \E path \in PathsUnder(roots, <<>>) :
          /\ Len(path) = 2
          /\ \E i \in LinesFor(path) : written[i].kind = "A"
    /\ \E path \in PathsUnder(roots, <<>>) :
          /\ Len(path) = 3
          /\ NodeAt(roots, SubSeq(path, 1, 2)).type = "other"
          /\ NodeAt(roots, path).type = "url"
          /\ LinesFor(path) = {}

\* C29: the bookmark count in the output file name bookmarks_<count>.html is
\* the number of A entries written into that file.
C29_CountIsWritten ==
    (pc = "json_written" /\ script = "batch_json") =>
        bookmark_count =
            Cardinality({i \in 1..Len(written) : written[i].kind = "A"})

\* when only folders have children, the count is the number of A entries
CountIsWrittenUnderFolders ==
    (/\ pc = "json_written"
     /\ script = "batch_json"
     /\ \A path \in PathsUnder(roots, <<>>) : UnderFolders(path)) =>
        bookmark_count =
            Cardinality({i \in 1..Len(written) : written[i].kind = "A"})

(***************************************************************************)
(* The listing of a result set in the reports: "for item in                *)
(* sorted(list(s))" of generate_report (compare_bookmarks_流式解析.py) and   *)
(* of analyze_multiple_files (compare_multi_bookmarks_流式解析.py).          *)
(* list(s) yields the elements in the iteration order of the set, which    *)
(* the language leaves open.                                               *)
(***************************************************************************)
\* the keys the result sets are made of
ListedPool(m) ==
    IF m = "url"
    THEN { <<"a">>, <<"a", "b">>, <<"b">>, <<"B">> }
    ELSE { << <<"a">>, <<"A">> >>, << <<"a">>, <<"B">> >>,
           << <<"a", "b">>, <<"A">> >>, << <<"b">>, <<"A">> >>,
           << <<"B">>, <<"b">> >> }

\* the orders in which iterating over the set S may yield its elements
Orderings(S) ==
    {s \in [1..Cardinality(S) -> S] :
        \A i, j \in 1..Cardinality(S) : s[i] = s[j] => i = j}

\* the tuples compared by their titles first
ItemLess_TitleFirst(a, b) ==
    IF mode = "url" THEN StrLess(a, b)
    ELSE \/ StrLess(a[2], b[2])
         \/ a[2] = b[2] /\ StrLess(a[1], b[1])

\* a < b as sorted() evaluates it: str order for the urls of url mode, tuple
\* order for the (url, title) tuples of url-title mode
ItemLess(a, b) ==
    IF mode = "url" THEN StrLess(a, b)
    ELSE \/ StrLess(a[1], b[1])
         \/ a[1] = b[1] /\ StrLess(a[2], b[2])

\* item put into the sorted list l, after the elements not greater than it
RECURSIVE InsertItem(_, _)
InsertItem(item, l) ==
    IF l = <<>> THEN <<item>>
    ELSE IF ItemLess(item, l[1]) THEN <<item>> \o l
    ELSE <<l[1]>> \o InsertItem(item, Tail(l))

\* sorted(l): a stable sort in ascending order
RECURSIVE sorted(_)
sorted(l) ==
    IF l = <<>> THEN <<>>
    ELSE InsertItem(l[Len(l)], sorted(SubSeq(l, 1, Len(l) - 1)))

ListScripts == {"compare_stream", "multi_stream"}

\* a result set has been computed and list() is about to iterate over it
InitList ==
    /\ mode \in Modes
    /\ pc = "list"
    /\ script \in ListScripts
    /\ result_set \in
          {S \in SUBSET ListedPool(mode) : Cardinality(S) <= MaxListed}
    /\ iteration \in Orderings(result_set)
    /\ listed = <<>>
    /\ DedupIdle
    /\ ParserIdle
    /\ RegexIdle
    /\ CompareIdle
    /\ MultiIdle
    /\ NormalizeIdle
    /\ TwoIdle
    /\ FindIdle
    /\ JsonIdle
    /\ BatchIdle

\* lines 179 and 188 of generate_report, lines 169 and 199 of
\* analyze_multiple_files
list_sorted ==
    /\ pc = "list"
    /\ listed' = sorted(iteration)
    /\ pc' = "listed"
    /\ UNCHANGED <<mode, notList, result_set, iteration>>

NextList == list_sorted

SpecList == InitList /\ [][NextList]_vars

\* C24: a result set is listed with every key once, in ascending key order:
\* by url in url mode, by url and among equal urls by title in url-title
\* mode; the listing is the same for every iteration order of the set.
C24_SortedListing ==
    pc = "listed" =>
        /\ Len(listed) = Cardinality(result_set)
        /\ Range(listed) = result_set
        /\ \A i, j \in 1..Len(listed) :
              i < j =>
                  IF mode = "url" THEN StrLess(listed[i], listed[j])
                  ELSE \/ StrLess(listed[i][1], listed[j][1])
                       \/ /\ listed[i][1] = listed[j][1]
                          /\ StrLess(listed[i][2], listed[j][2])
        /\ \A o \in Orderings(result_set) : sorted(o) = listed

\* C24 witness: url-title mode, the set was iterated in another order than
\* the listed one, and two listed keys have the same url.
C24_Witness ==
    /\ pc = "listed"
    /\ mode = "url-title"
    /\ iteration # listed
    /\ \E i, j \in 1..Len(listed) :
          i < j /\ listed[i][1] = listed[j][1]

(***************************************************************************)
(* Properties of the callbacks of BookmarkParser, step by step.            *)
(***************************************************************************)
\* the step delivers the text node d
IsText(d) ==
    /\ nevents' = nevents + 1
    /\ ev'.kind = "data"
    /\ own_text' = own_text \o d

\* C25: a text node is appended to current_title when is_in_a_tag holds and
\* to current_folder when is_in_h3_tag holds, whatever the other flag is,
\* and an accumulator whose flag is off is left as it was.
C25_TextRouting ==
    [][\A d \in DataPool :
          IsText(d) =>
              /\ current_title' =
                    IF is_in_a_tag THEN current_title \o d ELSE current_title
              /\ current_folder' =
                    IF is_in_h3_tag THEN current_folder \o d
                    ELSE current_folder]_vars

\* the text of an anchor goes to current_title alone, the text of a heading
\* outside any anchor to current_folder alone, any other text nowhere
TextRoutingAnchorFirst ==
    [][\A d \in DataPool :
          IsText(d) =>
              /\ current_title' =
                    IF is_in_a_tag THEN current_title \o d ELSE current_title
              /\ current_folder' =
                    IF ~is_in_a_tag /\ is_in_h3_tag THEN current_folder \o d
                    ELSE current_folder]_vars

\* the step delivers StartTag(tag) or EndTag(tag)
IsTag(tag) ==
    /\ nevents' = nevents + 1
    /\ ev'.kind \in {"start", "end"}
    /\ ev'.tag = tag

\* C26: a start or end tag that is neither a nor h3 changes no attribute of
\* the parser; a start or end tag a leaves folders, total_folder_counter,
\* is_in_h3_tag and current_folder as they were; a start or end tag h3
\* leaves bookmarks, is_in_a_tag, current_url and current_title as they were.
C26_Frame ==
    [][\A tag \in TagPool :
          IsTag(tag) =>
              /\ tag \notin {"a", "h3"} =>
                    UNCHANGED <<mode, filter_enabled, decode_enabled,
                                bookmarks, folders, total_folder_counter,
                                is_in_a_tag, is_in_h3_tag, current_url,
                                current_title, current_folder>>
              /\ tag = "a" =>
                    UNCHANGED <<folders, total_folder_counter, is_in_h3_tag,
                                current_folder>>
              /\ tag = "h3" =>
                    UNCHANGED <<bookmarks, is_in_a_tag, current_url,
                                current_title>>]_vars

\* C26 witness: an end tag dt was delivered inside an open anchor inside an
\* open heading, after text had been collected.
C26_Witness ==
    /\ ev.kind = "end"
    /\ ev.tag = "dt"
    /\ is_in_a_tag
    /\ is_in_h3_tag
    /\ current_url # <<>>
    /\ current_title # <<>>

\* C27: whenever is_in_a_tag is false, current_url and current_title are
\* empty, and whenever is_in_h3_tag is false, current_folder is empty.
C27_Accumulators ==
    /\ ~is_in_a_tag => (current_url = <<>> /\ current_title = <<>>)
    /\ ~is_in_h3_tag => current_folder = <<>>

\* C27 witness: both flags are off again after an anchor and a heading that
\* had collected text were closed.
C27_Witness ==
    /\ pc = "feed"
    /\ ~is_in_a_tag
    /\ ~is_in_h3_tag
    /\ bookmarks # <<>>
    /\ \E name \in folders : name # <<>>

(***************************************************************************)
(* Properties of the kept list of the deduplication.                       *)
(***************************************************************************)
\* s can be obtained from t by leaving elements out
RECURSIVE IsSubsequence(_, _)
IsSubsequence(s, t) ==
    IF s = <<>> THEN TRUE
    ELSE IF t = <<>> THEN FALSE
    ELSE IF Head(s) = Head(t) THEN IsSubsequence(Tail(s), Tail(t))
    ELSE IsSubsequence(s, Tail(t))

\* C28: after any number of iterations of the loop, unique_bookmarks is a
\* subsequence of the processed occurrences in parse order, with the url
\* and title as parsed; it has exactly one entry for every distinct key
\* seen so far, and no two of its entries map to the same key.
C28_KeptList ==
    pc \in {"dedup_loop", "dedup_report", "dedup_done"} =>
        /\ IsSubsequence(unique_bookmarks, Processed)
        /\ \A key \in {KeyOf(Processed[i]) : i \in 1..Len(Processed)} :
              Cardinality({a \in 1..Len(unique_bookmarks) :
                              KeyOf(unique_bookmarks[a]) = key}) = 1
        /\ \A a, b \in 1..Len(unique_bookmarks) :
              KeyOf(unique_bookmarks[a]) = KeyOf(unique_bookmarks[b]) => a = b

\* C28 witness: the loop is under way, two entries are kept and one
\* occurrence was dropped, and a kept entry has a url other than its key.
C28_Witness ==
    /\ pc = "dedup_loop"
    /\ idx <= Len(all_bookmarks)
    /\ mode = "url"
    /\ Len(unique_bookmarks) = 2
    /\ Len(Processed) = 3
    /\ \E a \in 1..Len(unique_bookmarks) :
          KeyOf(unique_bookmarks[a]) # unique_bookmarks[a][1]

(***************************************************************************)
(* 批量书签去重.py: main and run_for_all_files. The file system holds the    *)
(* directory d with the files d/a and d/b, the file c, all three with a    *)
(* name ending in .html, and the file b, whose name does not; no path a    *)
(* exists. Paths are written without the common absolute prefix and        *)
(* without the extension.                                                  *)
(***************************************************************************)
Directories == { <<"d">> }

\* glob.glob(os.path.join(dir, '*.html')); the order of the result does not
\* matter, only sorted(list(path_counts.keys())) is used
GlobHtml(dir) == << <<"d", "/", "a">>, <<"d", "/", "b">> >>

\* the files with a name that ends in .html
HtmlFiles == { <<"d", "/", "a">>, <<"d", "/", "b">>, <<"c">> }

\* what the command line may name: the directory, the files, b and a
TargetPool == Directories \cup HtmlFiles \cup { <<"b">>, <<"a">> }

\* lines 17-37: all_discovered_paths
RECURSIVE Discover(_)
Discover(ts) ==
    IF ts = <<>> THEN <<>>
    ELSE (IF Head(ts) \in Directories THEN GlobHtml(Head(ts))
          ELSE IF Head(ts) \in HtmlFiles THEN <<Head(ts)>>
          ELSE <<>>) \o Discover(Tail(ts))

\* lines 39-40: sorted(list(collections.Counter(paths).keys()))
RECURSIVE SortedPaths(_)
SortedPaths(S) ==
    IF S = {} THEN <<>>
    ELSE LET least == CHOOSE x \in S : \A y \in S \ {x} : StrLess(x, y)
         IN  <<least>> \o SortedPaths(S \ {least})

Keys(paths) == SortedPaths(Range(paths))

\* lines 164-167
ModesFor(m) == IF m = "all" THEN <<"url", "url-title">> ELSE <<m>>

\* how a call of subprocess.run may end: the child exits with status 0, the
\* child exits with another status (CalledProcessError), the interpreter
\* cannot be started (FileNotFoundError), another exception is raised.
\* Without the script file the interpreter starts and exits with status 2.
Outcomes ==
    IF script_present THEN {"ok", "nonzero", "no_interpreter", "exception"}
    ELSE {"nonzero", "no_interpreter", "exception"}

\* the command line is parsed (line 158)
InitBatch ==
    /\ mode = "url"
    /\ pc = "batch_main"
    /\ script = "batch_dedup"
    /\ targets \in SeqsUpTo(TargetPool, MaxTargets) \ {<<>>}
    /\ batch_mode \in {"url", "url-title", "all"}
    /\ modes_to_run = <<>>
    /\ html_files = <<>>
    /\ file_i = 0
    /\ mode_j = 0
    /\ runs = <<>>
    /\ script_present \in BOOLEAN
    /\ attempts = 0
    /\ last_outcome = "none"
    /\ DedupIdle
    /\ ParserIdle
    /\ RegexIdle
    /\ CompareIdle
    /\ MultiIdle
    /\ NormalizeIdle
    /\ TwoIdle
    /\ FindIdle
    /\ JsonIdle
    /\ ListIdle

\* main lines 160-169 and run_for_all_files lines 13-69, up to the loop
main ==
    /\ pc = "batch_main"
    /\ IF ~script_present
       THEN /\ pc' = "batch_returned"
            /\ UNCHANGED <<modes_to_run, html_files, file_i, mode_j>>
       ELSE /\ modes_to_run' = ModesFor(batch_mode)
            /\ html_files' = Keys(Discover(targets))
            /\ IF Keys(Discover(targets)) = <<>>
               THEN /\ pc' = "batch_returned"
                    /\ UNCHANGED <<file_i, mode_j>>
               ELSE /\ pc' = "batch_loop"
                    /\ file_i' = 1
                    /\ mode_j' = 1
    /\ UNCHANGED <<mode, notBatch, targets, batch_mode, runs, script_present,
                   attempts, last_outcome>>

\* lines 71-117: one iteration of the inner loop
run_child(outcome) ==
    /\ pc = "batch_loop"
    /\ attempts' = attempts + 1
    /\ last_outcome' = outcome
    /\ IF outcome = "no_interpreter"
       THEN /\ pc' = "batch_aborted"
            /\ UNCHANGED <<runs, file_i, mode_j>>
       ELSE /\ runs' = Append(runs, <<html_files[file_i], modes_to_run[mode_j]>>)
            /\ IF mode_j < Len(modes_to_run)
               THEN /\ mode_j' = mode_j + 1
                    /\ UNCHANGED <<file_i, pc>>
               ELSE IF file_i < Len(html_files)
               THEN /\ file_i' = file_i + 1
                    /\ mode_j' = 1
                    /\ UNCHANGED pc
               ELSE /\ pc' = "batch_done"
                    /\ UNCHANGED <<file_i, mode_j>>
    /\ UNCHANGED <<mode, notBatch, targets, batch_mode, modes_to_run,
                   html_files, script_present>>

\* the file system: the script file is removed or renamed while the batch
\* is running
script_removed ==
    /\ pc = "batch_loop"
    /\ script_present
    /\ script_present' = FALSE
    /\ UNCHANGED <<mode, pc, notBatch, targets, batch_mode, modes_to_run,
                   html_files, file_i, mode_j, runs, attempts, last_outcome>>

NextBatch ==
    \/ main
    \/ \E outcome \in Outcomes : run_child(outcome)
    \/ script_removed

SpecBatch == InitBatch /\ [][NextBatch]_vars

\* the .html files the targets name, directly or through their directory
Discovered ==
    {p \in HtmlFiles :
        \E k \in 1..Len(targets) :
            \/ targets[k] = p
            \/ targets[k] \in Directories /\ p \in Range(GlobHtml(targets[k]))}

\* every discovered file once per selected mode, the files in ascending
\* path order and for each file url before url-title
RunsComplete ==
    /\ Len(runs) = Cardinality(Discovered) * Len(modes_to_run)
    /\ \A p \in Discovered :
          \A j \in 1..Len(modes_to_run) :
              Cardinality({k \in 1..Len(runs) :
                              runs[k] = <<p, modes_to_run[j]>>}) = 1
    /\ \A k, l \in 1..Len(runs) :
          k < l =>
              \/ StrLess(runs[k][1], runs[l][1])
              \/ /\ runs[k][1] = runs[l][1]
                 /\ runs[k][2] = "url"
                 /\ runs[l][2] = "url-title"

\* the step is a call of subprocess.run
IsAttempt == attempts' = attempts + 1

\* C30: a batch that is not aborted runs every distinct discovered .html
\* path exactly once per selected mode, in sorted path order and url before
\* url-title, whatever the exit status of the children; a call that finds
\* the interpreter or the script missing aborts the batch, and an aborted
\* batch starts no further child.
C30_BatchRunner ==
    /\ [](pc = "batch_done" => RunsComplete)
    /\ [][(IsAttempt /\ last_outcome' = "nonzero") => pc' # "batch_aborted"]_vars
    /\ [][(IsAttempt /\ (last_outcome' = "no_interpreter" \/ ~script_present))
              => (pc' = "batch_aborted" /\ runs' = runs)]_vars
    /\ [][pc = "batch_aborted" => (runs' = runs /\ pc' = pc)]_vars

\* the same without the missing script: the runs are complete, a non-zero
\* exit does not stop the batch, a missing interpreter does
BatchRunnerInterpreter ==
    /\ [](pc = "batch_done" => RunsComplete)
    /\ [][(IsAttempt /\ last_outcome' = "nonzero") => pc' # "batch_aborted"]_vars
    /\ [][(IsAttempt /\ last_outcome' = "no_interpreter")
              => (pc' = "batch_aborted" /\ runs' = runs)]_vars
    /\ [][pc = "batch_aborted" => (runs' = runs /\ pc' = pc)]_vars

\* a script that is missing when main starts: nothing is run
MissingScriptAtStart ==
    (pc = "batch_returned" /\ ~script_present) => runs = <<>>

====
